---- MODULE Spec2Model ----
(***************************************************************************)
(* The API-backed tool server (first_try_mcp): one tool invocation through *)
(* BaseTool.__call__, the per-tool validate_input and execute, and the     *)
(* HTTPClient.get call with its tenacity retry decorator, driven by a      *)
(* scripted transport (specification Spec).                                *)
(*                                                                         *)
(* The monitoring package (prometheus_grafana_fake_data): DataLoader with  *)
(* its cache, statement by statement under concurrent callers              *)
(* (specification LoaderSpec), and the tool classes' execute and the       *)
(* server's registered tool functions (specification ToolsSpec).           *)
(*                                                                         *)
(* A Python str is a sequence of tokens: a token is one character, or a    *)
(* literal fragment of a message or URL taken verbatim from the source.    *)
(* A Python value is a record [t, s, n]: t its type, s its characters      *)
(* (str), n its number (int, float).                                       *)
(***************************************************************************)
EXTENDS Integers, Sequences, FiniteSets, TLC

VARIABLES
    pc,              \* position of the invocation
    tool,            \* the tool invoked
    kwargs,          \* its keyword arguments
    max_retries,     \* HTTPClient.max_retries (from settings.max_retries)
    retry_delay,     \* HTTPClient.retry_delay (from settings.retry_delay)
    client,          \* HTTPClient._client: "none", "open" or "closed"
    open_clients,    \* httpx.AsyncClient objects opened and not yet closed
    script,          \* what the transport answers, attempt by attempt
    attempt_number,  \* tenacity's retry_state.attempt_number
    transport_calls, \* times self._client.get was invoked in this invocation
    slept,           \* the waits (seconds) tenacity slept between attempts
    validate_result, \* what validate_input raised (NoExc: it returned)
    get_result,      \* outcome of HTTPClient.get
    exec_result,     \* outcome of execute
    call_result,     \* outcome of __call__, what the caller sees
    post_result,     \* outcome of HTTPClient.post
    files,           \* the fixture files on disk, by filepath
    cache,           \* DataLoader._cache, by filepath
    cleared,         \* clear_cache was the last change of the cache
    loaders,         \* the load_yaml calls in progress, by caller
    subject,         \* the tool class constructed on the DataLoader
    invocation,      \* the execute call or server tool call in progress
    metadata,        \* self.metadata of the four tool objects
    enabled,         \* settings.enable_*_tool, by tool
    server_result,   \* what a registered function of the API server returned
    unit             \* a method called on its own, and what it gave

\* the state of the monitoring package (prometheus_grafana_fake_data)
mockVars == <<files, cache, cleared, loaders, subject, invocation>>

\* the API server's frontend, and the methods called on their own
frontVars == <<enabled, server_result, unit>>

vars == <<pc, tool, kwargs, max_retries, retry_delay, client, open_clients, script,
          attempt_number, transport_calls, slept, validate_result,
          get_result, exec_result, call_result, post_result, mockVars,
          metadata, frontVars>>

----------------------------------------------------------------------------
(* Bounds of the model *)

\* largest settings.max_retries / constructor max_retries the model configures
MaxConfiguredRetries == 3

\* largest settings.retry_delay (seconds) the model configures
MaxConfiguredDelay == 2

\* longest run of transient failures the scripted transport starts with
MaxTransientPrefix == 2

----------------------------------------------------------------------------
(* Python str operations on token sequences *)

LowerLetters == <<"a","b","c","d","e","f","g","h","i","j","k","l","m",
                  "n","o","p","q","r","s","t","u","v","w","x","y","z">>
UpperLetters == <<"A","B","C","D","E","F","G","H","I","J","K","L","M",
                  "N","O","P","Q","R","S","T","U","V","W","X","Y","Z">>
DigitChars == <<"0","1","2","3","4","5","6","7","8","9">>

InSeq(seq, c) == \E i \in 1..Len(seq) : seq[i] = c
IndexOf(seq, c) == CHOOSE i \in 1..Len(seq) : seq[i] = c

IsDigitChar(c) == InSeq(DigitChars, c)
IsAlphaChar(c) == InSeq(LowerLetters, c) \/ InSeq(UpperLetters, c)
IsHexChar(c) == \/ IsDigitChar(c)
                \/ c \in {"a","b","c","d","e","f","A","B","C","D","E","F"}
\* the whitespace of the model: the space and the newline
IsSpaceChar(c) == c \in {" ", "\n"}

\* The decimal digits of another script, by their code points (ARABIC-INDIC
\* DIGIT ZERO .. NINE): \d of a str pattern matches them and int() reads
\* them, as it does every character of Unicode category Nd.
ArabicIndicDigits == <<"U+0660", "U+0661", "U+0662", "U+0663", "U+0664",
                       "U+0665", "U+0666", "U+0667", "U+0668", "U+0669">>

\* \d in a str pattern
IsDecimalChar(c) == IsDigitChar(c) \/ InSeq(ArabicIndicDigits, c)

DecimalValue(c) == IF IsDigitChar(c) THEN IndexOf(DigitChars, c) - 1
                   ELSE IndexOf(ArabicIndicDigits, c) - 1

\* str.isalpha(): every character alphabetic and at least one character
isalpha(s) == Len(s) > 0 /\ \A i \in 1..Len(s) : IsAlphaChar(s[i])

\* str.replace(c, "")
replace(s, c) == SelectSeq(s, LAMBDA x : x # c)

upper(s) == [i \in 1..Len(s) |->
               IF InSeq(LowerLetters, s[i])
               THEN UpperLetters[IndexOf(LowerLetters, s[i])] ELSE s[i]]

lower(s) == [i \in 1..Len(s) |->
               IF InSeq(UpperLetters, s[i])
               THEN LowerLetters[IndexOf(UpperLetters, s[i])] ELSE s[i]]

RECURSIVE lstripc(_, _)
lstripc(s, c) == IF Len(s) > 0 /\ Head(s) = c THEN lstripc(Tail(s), c) ELSE s

RECURSIVE rstripc(_, _)
rstripc(s, c) == IF Len(s) > 0 /\ s[Len(s)] = c
                 THEN rstripc(SubSeq(s, 1, Len(s) - 1), c) ELSE s

RECURSIVE lstrip(_)
lstrip(s) == IF Len(s) > 0 /\ IsSpaceChar(Head(s)) THEN lstrip(Tail(s)) ELSE s

RECURSIVE rstrip(_)
rstrip(s) == IF Len(s) > 0 /\ IsSpaceChar(s[Len(s)])
             THEN rstrip(SubSeq(s, 1, Len(s) - 1)) ELSE s

\* str.strip(): surrounding whitespace removed
strip(s) == rstrip(lstrip(s))

\* str.split(sep): the pieces between the separators
RECURSIVE split(_, _)
split(s, sep) ==
    IF ~InSeq(s, sep) THEN <<s>>
    ELSE LET i == CHOOSE k \in 1..Len(s) :
                     s[k] = sep /\ \A j \in 1..(k - 1) : s[j] # sep
         IN  <<SubSeq(s, 1, i - 1)>> \o split(SubSeq(s, i + 1, Len(s)), sep)

\* the number that a string of decimal digits denotes
RECURSIVE DecimalNumber(_)
DecimalNumber(s) ==
    IF s = <<>> THEN 0
    ELSE 10 * DecimalNumber(SubSeq(s, 1, Len(s) - 1)) + DecimalValue(s[Len(s)])

\* int(s) of a string of decimal digits, which may be surrounded by
\* whitespace
int(s) == DecimalNumber(strip(s))

\* str(n) of a non-negative int
RECURSIVE str(_)
str(n) == IF n < 10 THEN <<DigitChars[n + 1]>>
          ELSE str(n \div 10) \o <<DigitChars[(n % 10) + 1]>>

\* `inner in outer`: inner is a contiguous part of outer
Contains(outer, inner) ==
    \E i \in 1..(Len(outer) - Len(inner) + 1) :
        SubSeq(outer, i, i + Len(inner) - 1) = inner

----------------------------------------------------------------------------
(* Python values *)

PyNone == [t |-> "none", s |-> <<>>, n |-> 0]
PyStr(s) == [t |-> "str", s |-> s, n |-> 0]
PyInt(n) == [t |-> "int", s |-> <<>>, n |-> n]
PyNaN == [t |-> "nan", s |-> <<>>, n |-> 0]     \* float("nan")
PyList == [t |-> "list", s |-> <<>>, n |-> 1]   \* a non-empty list

IsNone(v) == v.t = "none"
IsStr(v) == v.t = "str"                         \* isinstance(v, str)
IsNumber(v) == v.t \in {"int", "nan"}           \* isinstance(v, (int, float))

\* bool(v)
Truthy(v) == CASE v.t = "none" -> FALSE
               [] v.t = "str" -> Len(v.s) > 0
               [] v.t = "int" -> v.n # 0
               [] OTHER -> TRUE

\* v <= 0 for a number; every comparison with NaN is False
LeqZero(v) == IF v.t = "nan" THEN FALSE ELSE v.n <= 0

----------------------------------------------------------------------------
(* The error taxonomy (utils/exceptions.py) and the library exceptions *)

\* the base class of each exception class
Base(type) ==
    CASE type \in {"ToolExecutionError", "APIError", "ValidationError",
                   "ConfigurationError", "TimeoutError"} -> "MCPServerError"
      [] type = "MCPServerError" -> "Exception"
      [] type \in {"httpx.TimeoutException", "httpx.NetworkError",
                   "httpx.ProtocolError"} -> "httpx.TransportError"
      [] type \in {"httpx.TransportError", "httpx.TooManyRedirects"}
             -> "httpx.RequestError"
      [] type \in {"httpx.RequestError", "httpx.HTTPStatusError"}
             -> "httpx.HTTPError"
      [] type = "json.JSONDecodeError" -> "ValueError"
      [] type \in {"monitoring.DataLoadError", "monitoring.ConfigurationError",
                   "monitoring.ToolExecutionError",
                   "monitoring.ValidationError"} -> "monitoring.MonitoringError"
      [] type \in {"monitoring.TimeRangeError", "monitoring.FilterError"}
             -> "monitoring.ValidationError"
      [] type \in {"FileNotFoundError", "PermissionError"} -> "OSError"
      [] type = "KeyError" -> "LookupError"
      [] OTHER -> "Exception"

\* isinstance(e, cls) for an exception of class `type`
RECURSIVE IsInstance(_, _)
IsInstance(type, cls) ==
    \/ type = cls
    \/ type # "Exception" /\ IsInstance(Base(type), cls)

NoDetails == [keys |-> {}, status_code |-> 0, response_text |-> <<>>]

\* an exception object: its class, str(e), the chain of its causes
\* (__cause__, then the cause's __cause__, ...) and its details mapping
Exc(type, msg, causes, details) ==
    [type |-> type, msg |-> msg, causes |-> causes, details |-> details]

NoExc == Exc("none", <<>>, <<>>, NoDetails)

\* a faulty `raise ... from e`, which drops the original error (`from None`)
From_None(e) == <<>>

\* `raise X(...) from e`: e and e's own causes become the chain of causes
From(e) == <<[type |-> e.type, msg |-> e.msg]>> \o e.causes

ValidationError(msg) == Exc("ValidationError", msg, <<>>, NoDetails)

ToolExecutionError(msg, causes) ==
    Exc("ToolExecutionError", msg, causes, NoDetails)

MCPTimeoutError(msg, causes) == Exc("TimeoutError", msg, causes, NoDetails)

\* APIError.__init__: a falsy status_code or response_text gets no entry
APIError(msg, status_code, response_text, causes) ==
    Exc("APIError", msg, causes,
        [keys |-> (IF status_code # 0 THEN {"status_code"} ELSE {})
                  \cup (IF response_text # <<>> THEN {"response_text"} ELSE {}),
         status_code |-> status_code,
         response_text |-> response_text])

----------------------------------------------------------------------------
(* validate_input of the four tools *)

NoKwargs == [location |-> PyNone, ip_address |-> PyNone, word |-> PyNone,
             base_currency |-> PyNone, target_currency |-> PyNone,
             amount |-> PyNone]

WeatherTool_validate_input(kw) ==
    LET location == kw.location IN
    IF ~Truthy(location)
    THEN ValidationError(<<"location parameter is required">>)
    ELSE IF ~IsStr(location)
    THEN ValidationError(<<"location must be a string">>)
    ELSE IF Len(strip(location.s)) = 0
    THEN ValidationError(<<"location cannot be empty">>)
    ELSE NoExc

\* Where `$` of a pattern compiled without re.MULTILINE can match: at the
\* end of the string, and just before a newline that ends the string. The
\* set holds what the pattern up to `$` may have consumed.
BeforeDollar(s) ==
    IF Len(s) > 0 /\ s[Len(s)] = "\n"
    THEN {s, SubSeq(s, 1, Len(s) - 1)} ELSE {s}

\* a faulty variant for comparison: `$` read as the end of the string only
MatchesIpv4Pattern_to_the_end(ip) ==
    LET parts == split(ip, ".") IN
    /\ Len(parts) = 4
    /\ \A i \in 1..4 :
          /\ Len(parts[i]) \in 1..3
          /\ \A j \in 1..Len(parts[i]) : IsDecimalChar(parts[i][j])

\* re.match(r"^(\d{1,3}\.){3}\d{1,3}$", ip)
MatchesIpv4Pattern(ip) ==
    \E body \in BeforeDollar(ip) :
        LET parts == split(body, ".") IN
        /\ Len(parts) = 4
        /\ \A i \in 1..4 :
              /\ Len(parts[i]) \in 1..3
              /\ \A j \in 1..Len(parts[i]) : IsDecimalChar(parts[i][j])

\* re.match(r"^([0-9a-fA-F]{0,4}:){7}[0-9a-fA-F]{0,4}$", ip)
MatchesIpv6Pattern(ip) ==
    \E body \in BeforeDollar(ip) :
        LET parts == split(body, ":") IN
        /\ Len(parts) = 8
        /\ \A i \in 1..8 :
              /\ Len(parts[i]) \in 0..4
              /\ \A j \in 1..Len(parts[i]) : IsHexChar(parts[i][j])

_is_valid_ip(ip) ==
    IF MatchesIpv4Pattern(ip)
    THEN LET octets == split(ip, ".") IN
         \A i \in 1..Len(octets) : 0 <= int(octets[i]) /\ int(octets[i]) <= 255
    ELSE MatchesIpv6Pattern(ip)

IPInfoTool_validate_input(kw) ==
    LET ip_address == kw.ip_address IN
    IF IsNone(ip_address) \/ ip_address = PyStr(<<>>)
    THEN NoExc
    ELSE IF ~IsStr(ip_address)
    THEN ValidationError(<<"ip_address must be a string">>)
    ELSE IF ~_is_valid_ip(strip(ip_address.s))
    THEN ValidationError(<<"Invalid IP address format: ">> \o ip_address.s)
    ELSE NoExc

DictionaryTool_validate_input(kw) ==
    LET word == kw.word IN
    IF ~Truthy(word)
    THEN ValidationError(<<"word parameter is required">>)
    ELSE IF ~IsStr(word)
    THEN ValidationError(<<"word must be a string">>)
    ELSE IF Len(strip(word.s)) = 0
    THEN ValidationError(<<"word cannot be empty">>)
    ELSE IF ~isalpha(replace(replace(word.s, "-"), "'"))
    THEN ValidationError(
             <<"word must contain only letters, hyphens, or apostrophes">>)
    ELSE NoExc

ExchangeRateTool_validate_input(kw) ==
    LET base_currency == kw.base_currency
        target_currency == kw.target_currency
        amount == kw.amount
    IN
    IF ~Truthy(base_currency)
    THEN ValidationError(<<"base_currency parameter is required">>)
    ELSE IF ~IsStr(base_currency)
    THEN ValidationError(<<"base_currency must be a string">>)
    ELSE IF Len(base_currency.s) # 3
    THEN ValidationError(<<"base_currency must be a 3-letter currency code">>)
    ELSE IF ~isalpha(base_currency.s)
    THEN ValidationError(<<"base_currency must contain only letters">>)
    ELSE IF ~IsNone(target_currency) /\ ~IsStr(target_currency)
    THEN ValidationError(<<"target_currency must be a string">>)
    ELSE IF ~IsNone(target_currency) /\ Len(target_currency.s) # 3
    THEN ValidationError(<<"target_currency must be a 3-letter currency code">>)
    ELSE IF ~IsNone(target_currency) /\ ~isalpha(target_currency.s)
    THEN ValidationError(<<"target_currency must contain only letters">>)
    ELSE IF ~IsNone(amount) /\ ~IsNumber(amount)
    THEN ValidationError(<<"amount must be a number">>)
    ELSE IF ~IsNone(amount) /\ LeqZero(amount)
    THEN ValidationError(<<"amount must be positive">>)
    ELSE NoExc

\* self.validate_input(**kwargs), dispatched on the tool's class
validate_input(t, kw) ==
    CASE t = "weather" -> WeatherTool_validate_input(kw)
      [] t = "ip_info" -> IPInfoTool_validate_input(kw)
      [] t = "dictionary" -> DictionaryTool_validate_input(kw)
      [] t = "exchange_rate" -> ExchangeRateTool_validate_input(kw)

----------------------------------------------------------------------------
(* Outcomes of a call: a returned value or a raised exception *)

NoValue == [t |-> "none"]

Return(v) == [ok |-> TRUE, value |-> v, exc |-> NoExc]
Raise(e) == [ok |-> FALSE, value |-> NoValue, exc |-> e]

NoResult == Raise(NoExc)      \* nothing returned or raised yet

----------------------------------------------------------------------------
(* The upstream: JSON documents and the answers of the transport *)

PyTrue == [t |-> "bool", s |-> <<>>, n |-> 1]

\* A parsed JSON body, as far as the tools look at it: its type t ("dict",
\* "list", "null"), for a list its length n, and for a dict
\*   error, reason      the keys "error" and "reason" (ipapi.co)
\*   result, error_type the keys "result" and "error-type" (open.er-api.com)
\*   rates              the mapping of the key "rates", in its order: pairs
\*                      of a currency code and its rate
\*   sections           the lists under "current_condition"/"nearest_area"
\*                      (wttr.in): "present", "absent" or "empty" ([])
\*   entries            the entries of a list (api.dictionaryapi.dev), for
\*                      the lists whose entries matter
\* PyNone stands for a key that is absent.
Json(t, n, error, reason, result, error_type, rates, sections) ==
    [t |-> t, n |-> n, error |-> error, reason |-> reason, result |-> result,
     error_type |-> error_type, rates |-> rates, sections |-> sections,
     entries |-> <<>>]

\* One entry of a dictionary response: its "word" (PyNone: no such key),
\* its "phonetics", each with a "text" and an "audio" (<<>>: empty or no
\* such key), and its "meanings", each with a "partOfSpeech" (PyNone: no
\* such key) and the number of its "definitions".
Phonetic(text, audio) == [text |-> text, audio |-> audio]
Meaning(partOfSpeech, definitions) ==
    [partOfSpeech |-> partOfSpeech, definitions |-> definitions]
Entry(word, phonetics, meanings) ==
    [word |-> word, phonetics |-> phonetics, meanings |-> meanings]

\* a list of dictionary entries
JsonEntries(entries) ==
    [t |-> "list", n |-> Len(entries), error |-> PyNone, reason |-> PyNone,
     result |-> PyNone, error_type |-> PyNone, rates |-> <<>>,
     sections |-> "absent", entries |-> entries]

EUR == <<"E", "U", "R">>
USD == <<"U", "S", "D">>

\* A float, in ten-thousandths: Float4(8423) is 0.8423. Products of an
\* amount and a rate are exact in this scale; the rounding of binary floats
\* is not modelled.
Float4(n) == [t |-> "float", s |-> <<>>, n |-> n]

\* one item of a rate mapping
RateOf(code, rate) == [code |-> code, rate |-> rate]

JsonObject == Json("dict", 0, PyNone, PyNone, PyStr(<<"success">>), PyNone,
                   <<RateOf(USD, Float4(10000)), RateOf(EUR, Float4(8423))>>,
                   "present")
JsonSparseObject == Json("dict", 0, PyNone, PyNone, PyNone, PyNone, <<>>, "absent")
JsonEmptySections == Json("dict", 0, PyNone, PyNone, PyNone, PyNone, <<>>, "empty")
JsonErrorFlag == Json("dict", 0, PyTrue, PyStr(<<"Q","u","o","t","a">>),
                      PyNone, PyNone, <<>>, "absent")
JsonErrorReason == Json("dict", 0, PyStr(<<"yes">>),
                        PyStr(<<"R","e","s","e","r","v","e","d">>), PyNone,
                        PyNone, <<>>, "absent")
JsonErrorRateLimit == Json("dict", 0, PyStr(<<"yes">>),
                           PyStr(<<"R","a","t","e"," ","L","i","m","i","t">>),
                           PyNone, PyNone, <<>>, "absent")
JsonErrorBadReason == Json("dict", 0, PyTrue, PyInt(5), PyNone, PyNone, <<>>,
                           "absent")
JsonResultError == Json("dict", 0, PyNone, PyNone, PyStr(<<"error">>),
                        PyStr(<<"unsupported-code">>), <<>>, "absent")
JsonList == JsonEntries(<<Entry(PyNone, <<>>, <<>>)>>)
JsonEmptyList == Json("list", 0, PyNone, PyNone, PyNone, PyNone, <<>>, "absent")
JsonNull == Json("null", 0, PyNone, PyNone, PyNone, PyNone, <<>>, "absent")

JsonDocs == {JsonObject, JsonSparseObject, JsonEmptySections, JsonErrorFlag,
             JsonErrorReason, JsonErrorRateLimit, JsonErrorBadReason, JsonResultError, JsonList,
             JsonEmptyList, JsonNull}

\* One answer of the transport to self._client.get: kind is
\*   "timeout"  httpx.TimeoutException     "network"  httpx.NetworkError
\*   "request"  another httpx.RequestError "status"   a non-2xx response
\*   "badjson"  a 2xx response whose body is not JSON
\*   "ok"       a 2xx response with the JSON document json
\*   "closed"   the RuntimeError of an httpx.AsyncClient that was closed
\* code and body are the response's status and text, text is str(e) of the
\* library's exception.
Answer(kind, code, body, text, json) ==
    [kind |-> kind, code |-> code, body |-> body, text |-> text, json |-> json]

\* str(e) of json.JSONDecodeError at character pos of line 1
JSONDecodeErrorText(pos) ==
    <<"Expecting value: line 1 column ">> \o str(pos + 1)
        \o <<" (char ">> \o str(pos) \o <<")">>

StatusCodes == {404, 429}
Bodies == {<<>>, <<"Not Found">>}
BadJsonPositions == {0, 429}

TransientAnswers ==
    {Answer("timeout", 0, <<>>, <<>>, JsonNull),
     Answer("network", 0, <<>>, <<"All connection attempts failed">>, JsonNull)}

FinalAnswers ==
    TransientAnswers
    \cup {Answer("request", 0, <<>>, <<"Exceeded maximum allowed redirects.">>,
                 JsonNull)}
    \cup {Answer("status", c, b, <<>>, JsonNull) : c \in StatusCodes, b \in Bodies}
    \cup {Answer("badjson", 200, <<"<html>">>, JSONDecodeErrorText(p), JsonNull) :
              p \in BadJsonPositions}
    \cup {Answer("ok", 200, <<>>, <<>>, d) : d \in JsonDocs}

\* the sequences over S of length at most n
RECURSIVE SeqsUpTo(_, _)
SeqsUpTo(S, n) ==
    IF n = 0 THEN {<<>>}
    ELSE LET shorter == SeqsUpTo(S, n - 1) IN
         shorter \cup {Append(q, x) : q \in shorter, x \in S}

\* A script of the transport: some transient failures, then a final answer
\* that it keeps giving to every later attempt.
Scripts == {Append(q, a) : q \in SeqsUpTo(TransientAnswers, MaxTransientPrefix),
                           a \in FinalAnswers}

TransportAnswer(sc, k) == sc[IF k <= Len(sc) THEN k ELSE Len(sc)]

IsTransient(a) == a.kind \in {"timeout", "network"}

\* the exception that self._client.get, raise_for_status or response.json
\* raises for an answer that is not "ok"
LibraryException(a) ==
    [type |-> CASE a.kind = "timeout" -> "httpx.TimeoutException"
                [] a.kind = "network" -> "httpx.NetworkError"
                [] a.kind = "request" -> "httpx.TooManyRedirects"
                [] a.kind = "status" -> "httpx.HTTPStatusError"
                [] a.kind = "badjson" -> "json.JSONDecodeError"
                [] a.kind = "closed" -> "RuntimeError"
                [] OTHER -> "none",
     msg |-> a.text, causes |-> <<>>]

----------------------------------------------------------------------------
(* HTTPClient (utils/http_client.py) *)

\* HTTPClient.__init__: a falsy argument falls back to the settings value
HTTPClient_init(arg, settings_value) == IF arg # 0 THEN arg ELSE settings_value

\* __aenter__: self._client = httpx.AsyncClient(...)
HTTPClient_aenter(c) == "open"

\* a faulty __aexit__, which leaves the client open
HTTPClient_aexit_no_close(c) == c

\* __aexit__: if self._client: await self._client.aclose()
HTTPClient_aexit(c) == IF c # "none" THEN "closed" ELSE c

\* a faulty body of get, without the last clause `except Exception`: an
\* exception that is no httpx.RequestError and no httpx.HTTPStatusError
\* leaves get as it is
get_body_no_catch_all(c, url, a) ==
    IF c = "none"
    THEN Raise(Exc("RuntimeError",
                   <<"HTTPClient must be used as a context manager">>, <<>>,
                   NoDetails))
    ELSE IF a.kind = "ok"
    THEN Return(a.json)
    ELSE LET e == LibraryException(a) IN
         IF IsInstance(e.type, "httpx.TimeoutException")
         THEN Raise(MCPTimeoutError(
                        <<"Request to ">> \o url \o <<" timed out">>, From(e)))
         ELSE IF IsInstance(e.type, "httpx.HTTPStatusError")
         THEN Raise(APIError(
                        <<"HTTP ">> \o str(a.code) \o <<" error for ">> \o url,
                        a.code, a.body, From(e)))
         ELSE IF IsInstance(e.type, "httpx.RequestError")
         THEN Raise(APIError(
                        <<"Request failed for ">> \o url \o <<": ">> \o e.msg,
                        0, <<>>, From(e)))
         ELSE Raise(Exc(e.type, e.msg, <<>>, NoDetails))

\* One execution of the body of get for the transport's answer a: the guard
\* on self._client, then the try block and its except clauses in order.
get_body(c, url, a) ==
    IF c = "none"
    THEN Raise(Exc("RuntimeError",
                   <<"HTTPClient must be used as a context manager">>, <<>>,
                   NoDetails))
    ELSE IF a.kind = "ok"
    THEN Return(a.json)
    ELSE LET e == LibraryException(a) IN
         IF IsInstance(e.type, "httpx.TimeoutException")
         THEN Raise(MCPTimeoutError(
                        <<"Request to ">> \o url \o <<" timed out">>, From(e)))
         ELSE IF IsInstance(e.type, "httpx.HTTPStatusError")
         THEN Raise(APIError(
                        <<"HTTP ">> \o str(a.code) \o <<" error for ">> \o url,
                        a.code, a.body, From(e)))
         ELSE IF IsInstance(e.type, "httpx.RequestError")
         THEN Raise(APIError(
                        <<"Request failed for ">> \o url \o <<": ">> \o e.msg,
                        0, <<>>, From(e)))
         ELSE Raise(APIError(
                        <<"Unexpected error for ">> \o url \o <<": ">> \o e.msg,
                        0, <<>>, From(e)))

\* whether get's body reaches self._client.get: only past the guard
InvokesTransport(c) == c # "none"

\* The body of post for the transport's answer a to self._client.post: the
\* same guard, try block and except clauses as get. post carries no @retry
\* decorator: a call of post is one execution of this body.
post_body(c, url, a) ==
    IF c = "none"
    THEN Raise(Exc("RuntimeError",
                   <<"HTTPClient must be used as a context manager">>, <<>>,
                   NoDetails))
    ELSE IF a.kind = "ok"
    THEN Return(a.json)
    ELSE LET e == LibraryException(a) IN
         IF IsInstance(e.type, "httpx.TimeoutException")
         THEN Raise(MCPTimeoutError(
                        <<"Request to ">> \o url \o <<" timed out">>, From(e)))
         ELSE IF IsInstance(e.type, "httpx.HTTPStatusError")
         THEN Raise(APIError(
                        <<"HTTP ">> \o str(a.code) \o <<" error for ">> \o url,
                        a.code, a.body, From(e)))
         ELSE IF IsInstance(e.type, "httpx.RequestError")
         THEN Raise(APIError(
                        <<"Request failed for ">> \o url \o <<": ">> \o e.msg,
                        0, <<>>, From(e)))
         ELSE Raise(APIError(
                        <<"Unexpected error for ">> \o url \o <<": ">> \o e.msg,
                        0, <<>>, From(e)))

(* The @retry decorator of get (tenacity) *)

StopAttempts == 3       \* stop_after_attempt(3)
WaitMultiplier == 1     \* wait_exponential(multiplier=1, ...)
WaitMin == 1            \* wait_exponential(..., min=1, ...)
WaitMax == 10           \* wait_exponential(..., max=10)

RECURSIVE Pow2(_)
Pow2(n) == IF n = 0 THEN 1 ELSE 2 * Pow2(n - 1)

Min(a, b) == IF a <= b THEN a ELSE b
Max(a, b) == IF a >= b THEN a ELSE b

\* a faulty retry predicate, retry_if_exception_type(Exception): every
\* failure is retried
retry_if_any_exception(e) == IsInstance(e.type, "Exception")

\* retry=retry_if_exception_type((httpx.TimeoutException, httpx.NetworkError)),
\* applied to the exception that left the body of get
retry_if_exception_type(e) ==
    \/ IsInstance(e.type, "httpx.TimeoutException")
    \/ IsInstance(e.type, "httpx.NetworkError")

\* stop=stop_after_attempt(3)
stop_after_attempt(n) == n >= StopAttempts

\* wait=wait_exponential(multiplier=1, min=1, max=10): the wait after
\* attempt number n (1, 2, ...)
wait_exponential(n) == Max(WaitMin, Min(WaitMultiplier * Pow2(n - 1), WaitMax))

----------------------------------------------------------------------------
(* The tools' execute (tools/*.py) *)

Tools == {"weather", "ip_info", "dictionary", "exchange_rate"}

\* ToolMetadata (tools/base.py): the fields of the pydantic model
ToolMetadata(name, description, version, author, requires_api_key) ==
    [name |-> name, description |-> description, version |-> version,
     author |-> author, requires_api_key |-> requires_api_key]

\* _get_metadata of the four tool classes
_get_metadata(t) ==
    ToolMetadata(
        t,
        CASE t = "weather" ->
                 "Get current weather information for any location"
          [] t = "ip_info" ->
                 "Get geolocation information for an IP address"
          [] t = "dictionary" ->
                 "Look up word definitions, pronunciations, and examples"
          [] t = "exchange_rate" ->
                 "Get currency exchange rates and convert between currencies",
        "1.0.0", "Enterprise MCP Server", FALSE)

\* BaseTool.__init__: self.metadata = self._get_metadata()
BaseTool_init(t) == _get_metadata(t)

\* a faulty read of the metadata, which clears its name
read_metadata_clearing_name(m) == [m EXCEPT !.name = ""]

\* self.metadata.name as __call__ reads it for its log lines: the metadata
\* object after the read
read_metadata(m) == m

\* APIBasedTool.__init__ and _build_url
_build_url(base_url, endpoint) ==
    rstripc(base_url, "/") \o <<"/">> \o lstripc(endpoint, "/")

\* the URL each execute requests
WeatherTool_url(kw) == _build_url(<<"https://wttr.in">>, kw.location.s)

IPInfoTool_url(kw) ==
    _build_url(<<"https://ipapi.co">>,
               IF Truthy(kw.ip_address) THEN kw.ip_address.s \o <<"/json/">>
               ELSE <<"json/">>)

DictionaryTool_url(kw) ==
    _build_url(<<"https://api.dictionaryapi.dev/api/v2/entries/en">>,
               lower(strip(kw.word.s)))

ExchangeRateTool_url(kw) ==
    _build_url(<<"https://open.er-api.com/v6">>,
               <<"latest/">> \o upper(kw.base_currency.s))

Url(t, kw) ==
    CASE t = "weather" -> WeatherTool_url(kw)
      [] t = "ip_info" -> IPInfoTool_url(kw)
      [] t = "dictionary" -> DictionaryTool_url(kw)
      [] t = "exchange_rate" -> ExchangeRateTool_url(kw)

\* an exception of the interpreter, outside the taxonomy
PythonError(type, msg) == Exc(type, msg, <<>>, NoDetails)

\* data.get(...) on a parsed body that is not a dict
NoGetAttribute(data) ==
    PythonError("AttributeError",
                IF data.t = "list"
                THEN <<"'list' object has no attribute 'get'">>
                ELSE <<"'NoneType' object has no attribute 'get'">>)

NoConversion ==
    [present |-> FALSE, from |-> <<>>, to |-> <<>>, rate |-> PyNone,
     amount |-> PyNone, result |-> PyNone]

\* the keys "word", "phonetics" and "meanings" of DictionaryTool's result
NoDictionary == [present |-> FALSE, word |-> <<>>, phonetics |-> <<>>,
                 meanings |-> <<>>]

\* the keys of WeatherTool's result
NoWeather == [present |-> FALSE, name |-> <<>>, condition |-> <<>>,
              temperature_c |-> <<>>, observation_time |-> <<>>]

\* the keys "rates" and "available_currencies" of ExchangeRateTool's result
NoListing == [present |-> FALSE, rates |-> <<>>, available_currencies |-> <<>>]

\* the normalized result of a tool: the document it was mapped from and,
\* for exchange_rate, the conversion block
Result(t, data, conversion) ==
    [t |-> t, data |-> data, conversion |-> conversion, listing |-> NoListing,
     weather |-> NoWeather, dictionary |-> NoDictionary]

\* what wttr.in reports in a section that is present
Upstream == [areaName |-> <<"Hanoi">>, weatherDesc |-> <<"Sunny">>,
             temp_C |-> <<"31">>, observation_time |-> <<"09:00 AM">>]

\* The mapping WeatherTool.execute builds from the sections of a dict body:
\* "location"."name", "current"."condition", "current"."temperature_c" (as
\* the eleven other keys read with current.get(key, "")) and
\* "observation_time". A missing section is read as [{}][0], a missing key
\* as its default.
WeatherFields(location, sections) ==
    IF sections = "present"
    THEN [present |-> TRUE, name |-> Upstream.areaName,
          condition |-> Upstream.weatherDesc, temperature_c |-> Upstream.temp_C,
          observation_time |-> Upstream.observation_time]
    ELSE [present |-> TRUE, name |-> location, condition |-> <<>>,
          temperature_c |-> <<>>, observation_time |-> <<>>]

\* WeatherTool.execute, from the outcome r of client.get on
WeatherTool_execute(kw, r) ==
    LET wrap(e) == Raise(ToolExecutionError(
                       <<"Failed to fetch weather for ">> \o kw.location.s
                           \o <<": ">> \o e.msg, From(e)))
    IN
    IF ~r.ok THEN wrap(r.exc)
    ELSE IF r.value.t # "dict" THEN wrap(NoGetAttribute(r.value))
    ELSE IF r.value.sections = "empty"
    THEN wrap(PythonError("IndexError", <<"list index out of range">>))
    ELSE Return([Result("weather", r.value, NoConversion)
                    EXCEPT !.weather = WeatherFields(kw.location.s,
                                                     r.value.sections)])

RateLimitMessage ==
    <<"API rate limit exceeded. The free ipapi.co service limits requests. ",
      "Please try again later or use a specific IP address.">>

RateLimitMessage429 ==
    <<"API rate limit exceeded. The free ipapi.co service has strict rate limits. ",
      "Please try again later.">>

\* IPInfoTool.execute, from the outcome r of client.get on
IPInfoTool_execute(kw, r) ==
    LET who == IF Truthy(kw.ip_address) THEN kw.ip_address.s
               ELSE <<"current IP">>
        wrap(e) ==
            IF Contains(e.msg, <<"4", "2", "9">>)
            THEN Raise(ToolExecutionError(RateLimitMessage429, From(e)))
            ELSE Raise(ToolExecutionError(
                     <<"Failed to fetch IP info for ">> \o who \o <<": ">>
                         \o e.msg, From(e)))
        data == r.value
        error_msg == IF IsNone(data.reason)
                     THEN PyStr(<<"Unknown error">>) ELSE data.reason
    IN
    IF ~r.ok THEN wrap(r.exc)
    ELSE IF data.t # "dict" THEN wrap(NoGetAttribute(data))
    ELSE IF Truthy(data.error)
    THEN IF ~IsStr(error_msg)
         THEN wrap(PythonError("AttributeError",
                               <<"'int' object has no attribute 'lower'">>))
         ELSE IF \/ Contains(lower(error_msg.s),
                             <<"r","a","t","e"," ","l","i","m","i","t">>)
                 \/ data.error = PyTrue
         THEN Raise(ToolExecutionError(RateLimitMessage, <<>>))
         ELSE Raise(ToolExecutionError(<<"API error: ">> \o error_msg.s, <<>>))
    ELSE Return(Result("ip_info", data, NoConversion))

\* a faulty extraction of the phonetics, which keeps every entry
DictionaryTool_phonetics_unfiltered(phonetics) == phonetics

\* the loop over entry.get("phonetics", []): an entry is kept when
\* phonetic.get("text") or phonetic.get("audio") is truthy
DictionaryTool_phonetics(phonetics) ==
    SelectSeq(phonetics, LAMBDA ph : ph.text # <<>> \/ ph.audio # <<>>)

\* the loop over entry.get("meanings", []): one mapping per meaning, with
\* part_of_speech = meaning.get("partOfSpeech", "") and its definitions
DictionaryTool_meanings(meanings) ==
    [i \in 1..Len(meanings) |->
        [part_of_speech |-> IF IsNone(meanings[i].partOfSpeech) THEN <<>>
                            ELSE meanings[i].partOfSpeech.s,
         definitions |-> meanings[i].definitions]]

\* DictionaryTool.execute, from the outcome r of client.get on
DictionaryTool_execute(kw, r) ==
    LET word == lower(strip(kw.word.s))
        wrap(e) == Raise(ToolExecutionError(
                       <<"Failed to look up word '">> \o word \o <<"': ">>
                           \o e.msg, From(e)))
        data == r.value
    IN
    IF ~r.ok THEN wrap(r.exc)
    ELSE IF data.t # "list" \/ data.n = 0
    THEN Raise(ToolExecutionError(
                   <<"No definition found for '">> \o word \o <<"'">>, <<>>))
    ELSE LET entry == data.entries[1] IN
         Return([Result("dictionary", data, NoConversion)
                    EXCEPT !.dictionary =
                        [present |-> TRUE,
                         word |-> IF IsNone(entry.word) THEN word
                                  ELSE entry.word.s,
                         phonetics |-> DictionaryTool_phonetics(entry.phonetics),
                         meanings |-> DictionaryTool_meanings(entry.meanings)]])

\* `code in rates`, rates[code], list(rates.keys())
HasKey(rates, code) == \E i \in 1..Len(rates) : rates[i].code = code
Lookup(rates, code) ==
    rates[CHOOSE i \in 1..Len(rates) : rates[i].code = code].rate
Keys(rates) == [i \in 1..Len(rates) |-> rates[i].code]

\* a faulty variant for comparison: the amount is left out of the product
Multiply_ignoring_amount(amount, rate) == rate

\* conversion_amount * rate, for an int or float amount
Multiply(amount, rate) ==
    IF amount.t = "nan" THEN PyNaN ELSE Float4(amount.n * rate.n)

\* ExchangeRateTool.execute, from the outcome r of client.get on
ExchangeRateTool_execute(kw, r) ==
    LET base_currency == upper(kw.base_currency.s)
        wrap(e) == Raise(ToolExecutionError(
                       <<"Failed to fetch exchange rates for ">> \o base_currency
                           \o <<": ">> \o e.msg, From(e)))
        data == r.value
        error_type == IF IsNone(data.error_type) THEN <<"Unknown error">>
                      ELSE data.error_type.s
        target_currency == upper(kw.target_currency.s)
        rates == data.rates
        conversion_amount == IF ~IsNone(kw.amount) THEN kw.amount ELSE PyInt(1)
    IN
    IF ~r.ok THEN wrap(r.exc)
    ELSE IF data.t # "dict" THEN wrap(NoGetAttribute(data))
    ELSE IF data.result = PyStr(<<"error">>)
    THEN Raise(ToolExecutionError(
                   <<"Exchange rate API error: ">> \o error_type, <<>>))
    ELSE IF Truthy(kw.target_currency)
    THEN IF ~HasKey(rates, target_currency)
         THEN Raise(ToolExecutionError(
                        <<"Target currency '">> \o target_currency
                            \o <<"' not found">>, <<>>))
         ELSE Return(Result("exchange_rate", data,
                            [present |-> TRUE, from |-> base_currency,
                             to |-> target_currency,
                             rate |-> Lookup(rates, target_currency),
                             amount |-> conversion_amount,
                             result |-> Multiply(conversion_amount,
                                                 Lookup(rates, target_currency))]))
    ELSE Return([Result("exchange_rate", data, NoConversion)
                    EXCEPT !.listing = [present |-> TRUE, rates |-> rates,
                                        available_currencies |-> Keys(rates)]])

\* await self.execute(**kwargs), dispatched on the tool's class
execute(t, kw, r) ==
    CASE t = "weather" -> WeatherTool_execute(kw, r)
      [] t = "ip_info" -> IPInfoTool_execute(kw, r)
      [] t = "dictionary" -> DictionaryTool_execute(kw, r)
      [] t = "exchange_rate" -> ExchangeRateTool_execute(kw, r)

\* a faulty __call__, which translates what was raised into
\* ToolExecutionError instead of re-raising it
BaseTool_call_wrapping(r) ==
    IF r.ok THEN r
    ELSE Raise(ToolExecutionError(r.exc.msg, From(r.exc)))

\* BaseTool.__call__: what the caller gets for the outcome r of
\* validate_input or execute (the result returned, the exception re-raised)
BaseTool_call(r) == r

----------------------------------------------------------------------------
(* The keyword arguments the callers pass *)

Locations == {PyNone, PyStr(<<>>), PyStr(<<" ">>), PyStr(<<"L", "o">>),
              PyStr(<<" ", "L", "o">>), PyInt(5)}

IpAddresses ==
    {PyNone, PyStr(<<>>), PyInt(8),
     PyStr(<<"8", ".", "8", ".", "8", ".", "8">>),
     PyStr(<<" ", "8", ".", "8", ".", "8", ".", "8">>),
     PyStr(<<"2", "5", "6", ".", "1", ".", "1", ".", "1">>),
     PyStr(<<"1", ".", "2", ".", "3">>),
     PyStr(<<"4", "2", "9", ":", ":", ":", ":", ":", ":", ":", "1">>)}

Words == {PyNone, PyStr(<<>>), PyStr(<<" ">>), PyInt(1),
          PyStr(<<"H", "i">>), PyStr(<<"h", "-", "i">>),
          PyStr(<<"h", "1">>), PyStr(<<"-">>)}

BaseCurrencies == {PyNone, PyInt(840), PyStr(<<"u", "s", "d">>),
                   PyStr(<<"U", "S">>), PyStr(<<"U", "5", "D">>)}

TargetCurrencies == {PyNone, PyList, PyStr(<<>>), PyStr(<<"E", "U">>),
                     PyStr(<<"e", "u", "r">>), PyStr(<<"G", "B", "P">>)}

Amounts == {PyNone, PyInt(100), PyInt(0), PyInt(-5), PyNaN,
            PyStr(<<"1", "0">>)}

Inputs(t) ==
    CASE t = "weather" -> {[NoKwargs EXCEPT !.location = v] : v \in Locations}
      [] t = "ip_info" -> {[NoKwargs EXCEPT !.ip_address = v] : v \in IpAddresses}
      [] t = "dictionary" -> {[NoKwargs EXCEPT !.word = v] : v \in Words}
      [] t = "exchange_rate" ->
             {[NoKwargs EXCEPT !.base_currency = b, !.target_currency = c,
                               !.amount = a] :
                  b \in BaseCurrencies, c \in TargetCurrencies, a \in Amounts}

----------------------------------------------------------------------------
(* The monitoring package: fixtures and DataLoader (data_loader/loader.py) *)

\* most records a fixture file lists under its key
MaxRecords == 2

\* One record of a fixture list: its identifier ("id", "job_id", "node",
\* "trace_id", ... by fixture), its "status" / "level", and how many nested
\* elements it lists ("checks", "metrics", "spans").
Record(id, status, nested) == [id |-> id, status |-> status, nested |-> nested]

RecordPool == {Record(<<"r1">>, "SUCCESS", 1), Record(<<"r2">>, "ERROR", 2)}

RecordLists == SeqsUpTo(RecordPool, MaxRecords)

\* A parsed YAML document (a dict), as far as the tools look at it: whether
\* it has the key the tool reads, and the records listed there.
Dict(key, records) == [t |-> "dict", key |-> key, records |-> records]

\* A fixture file on disk: "missing", "unreadable" (open fails),
\* "malformed" (not YAML), "empty" (safe_load gives None), "nokey" (a
\* mapping without the key) or "doc" (a mapping with the records).
File(kind, records) == [kind |-> kind, records |-> records]

FileStates ==
    {File(k, <<>>) : k \in {"missing", "unreadable", "malformed", "empty",
                            "nokey"}}
    \cup {File("doc", l) : l \in RecordLists}

\* the filepaths of the DataLoader's load_* methods that the tools call
Filepaths ==
    {"logs/interface_logs.yaml", "logs/batch_logs.yaml",
     "logs/application_logs.yaml", "performance/server_metrics.yaml",
     "performance/apm_data.yaml", "performance/appl_area_metrics.yaml",
     "apm/traces.yaml", "apm/metrics.yaml",
     "health_checks/api_endpoints.yaml"}

DataLoadError(msg, causes) ==
    Exc("monitoring.DataLoadError", msg, causes, NoDetails)

\* a cache slot: present is `filepath in self._cache`
NotCached == [present |-> FALSE, data |-> Dict(FALSE, <<>>)]
Cached(data) == [present |-> TRUE, data |-> data]

\* DataLoader.__init__: self._cache = {}
EmptyCache == [fp \in Filepaths |-> NotCached]

\* a faulty variant for comparison: a loader that never looks in its cache
cache_hit_never(c, filepath, use_cache) == FALSE

\* line 43: use_cache and filepath in self._cache
cache_hit(c, filepath, use_cache) == use_cache /\ c[filepath].present

\* a faulty variant for comparison: a missing or malformed file reads as an
\* empty document
read_and_parse_lenient(f, filepath) ==
    CASE f.kind \in {"missing", "malformed", "empty"} -> Return(PyNone)
      [] f.kind = "unreadable" ->
             Raise(DataLoadError(
                 <<"Failed to read file ", filepath,
                   ": [Errno 13] Permission denied: 'data/", filepath, "'">>,
                 <<[type |-> "PermissionError",
                    msg |-> <<"[Errno 13] Permission denied: 'data/",
                              filepath, "'">>]>>))
      [] f.kind = "nokey" -> Return(Dict(FALSE, <<>>))
      [] f.kind = "doc" -> Return(Dict(TRUE, f.records))

\* lines 47-53 and the except clauses: full_path.exists(), open, and
\* yaml.safe_load
read_and_parse(f, filepath) ==
    CASE f.kind = "missing" ->
             Raise(DataLoadError(<<"File not found: data/", filepath>>, <<>>))
      [] f.kind = "unreadable" ->
             Raise(DataLoadError(
                 <<"Failed to read file ", filepath,
                   ": [Errno 13] Permission denied: 'data/", filepath, "'">>,
                 <<[type |-> "PermissionError",
                    msg |-> <<"[Errno 13] Permission denied: 'data/",
                              filepath, "'">>]>>))
      [] f.kind = "malformed" ->
             Raise(DataLoadError(
                 <<"Failed to parse YAML file ", filepath,
                   ": mapping values are not allowed here">>,
                 <<[type |-> "yaml.YAMLError",
                    msg |-> <<"mapping values are not allowed here">>]>>))
      [] f.kind = "empty" -> Return(PyNone)
      [] f.kind = "nokey" -> Return(Dict(FALSE, <<>>))
      [] f.kind = "doc" -> Return(Dict(TRUE, f.records))

\* a faulty variant for comparison: the entry is created empty, to be
\* filled in afterwards
cache_store_placeholder(c, filepath, data) ==
    [c EXCEPT ![filepath] = Cached(Dict(FALSE, <<>>))]

\* line 56: self._cache[filepath] = data or {}
cache_store(c, filepath, data) ==
    [c EXCEPT ![filepath] =
         Cached(IF data.t = "dict" THEN data ELSE Dict(FALSE, <<>>))]

\* lines 45 and 57: return self._cache[filepath]
cache_lookup(c, filepath) ==
    IF c[filepath].present THEN Return(c[filepath].data)
    ELSE Raise(Exc("KeyError", <<"'", filepath, "'">>, <<>>, NoDetails))

\* clear_cache: self._cache.clear()
clear_cache(c) == [fp \in Filepaths |-> NotCached]

\* get_cache_stats()["cached_items"]: len(self._cache)
cached_items(c) == Cardinality({fp \in Filepaths : c[fp].present})

\* the callers that may be inside load_yaml at the same time
Callers == {"caller1", "caller2"}

\* a call of load_yaml in progress: where it is, its arguments, the parsed
\* data it holds, what it returned or raised, and what it saw and did
\* (the slot it found at the call, whether it went to the file system,
\* whether clear_cache ran between its lines 56 and 57)
Loader(at, filepath, use_cache, data, result, found, read_file, cleared_under) ==
    [at |-> at, filepath |-> filepath, use_cache |-> use_cache, data |-> data,
     result |-> result, found |-> found, read_file |-> read_file,
     cleared_under |-> cleared_under]

NoLoader == Loader("idle", "", TRUE, PyNone, NoResult, NotCached, FALSE, FALSE)

\* load_yaml(filepath) run from its call to its return without another
\* caller in between (as a tool's execute runs it): the outcome, the cache
\* afterwards, and whether it went to the file system
load_yaml(c, f, filepath, use_cache) ==
    IF cache_hit(c, filepath, use_cache)
    THEN [outcome |-> cache_lookup(c, filepath), cache |-> c, read_file |-> FALSE]
    ELSE LET r == read_and_parse(f[filepath], filepath)
         IN  IF ~r.ok
             THEN [outcome |-> r, cache |-> c, read_file |-> TRUE]
             ELSE LET stored == cache_store(c, filepath, r.value) IN
                  [outcome |-> cache_lookup(stored, filepath),
                   cache |-> stored, read_file |-> TRUE]

----------------------------------------------------------------------------
(* The monitoring package: the tool classes' execute (tools/*.py) *)

MockTools ==
    {"InterfaceLogsTool", "BatchLogsTool", "ApplicationLogsTool",
     "ServerPerformanceTool", "ApplicationPerformanceTool",
     "ApplicationPerformanceInquiryTool", "CheckAPMTool",
     "ApiHealthCheckTool"}

TimeRangeError(msg) == Exc("monitoring.TimeRangeError", msg, <<>>, NoDetails)
FilterError(msg) == Exc("monitoring.FilterError", msg, <<>>, NoDetails)

Monitoring_ToolExecutionError(msg, causes) ==
    Exc("monitoring.ToolExecutionError", msg, causes, NoDetails)

\* The arguments of execute: time is hours / minutes / time_range_minutes,
\* choice is level / metric_type, filter is system_name / job_name /
\* service / node / area / service_name (with status, search_pattern and
\* endpoint, which execute reads as little).
Args(time, choice, filter) == [time |-> time, choice |-> choice, filter |-> filter]

\* one emitted row, hit, trace or series: what it is and the identifier of
\* the fixture record it was built from
Item(name, source) == [name |-> name, source |-> source]

\* What execute returns (the JSON or text before json.dumps): its format,
\* the count it reports (rowCount, hits.total.value, "Found N"; -1 when the
\* format reports none) and the emitted items in order.
Output(format, count, items) ==
    [t |-> "output", format |-> format, count |-> count, items |-> items]

\* s repeated n times
RECURSIVE Repeat(_, _)
Repeat(s, n) == IF n = 0 THEN <<>> ELSE s \o Repeat(s, n - 1)

\* `for m in records: for name in names: result.append(...)`
RECURSIVE Series(_, _)
Series(records, names) ==
    IF records = <<>> THEN <<>>
    ELSE [i \in 1..Len(names) |-> Item(names[i], Head(records).id)]
         \o Series(Tail(records), names)

\* the same loop over the nested elements of each record
RECURSIVE NestedSeries(_, _)
NestedSeries(records, names) ==
    IF records = <<>> THEN <<>>
    ELSE Repeat([i \in 1..Len(names) |-> Item(names[i], Head(records).id)],
                Head(records).nested)
         \o NestedSeries(Tail(records), names)

\* data.get(key, []) of the loaded document
Listed(data) == IF data.key THEN data.records ELSE <<>>

\* what one execute did: its outcome, the cache afterwards, the filepaths
\* it called load_yaml with, and how many times it went to the file system
Executed(outcome, c, loads, reads) ==
    [outcome |-> outcome, cache |-> c, loads |-> loads, reads |-> reads]

Reads(l) == IF l.read_file THEN 1 ELSE 0

\* `except TimeRangeError: raise`, `except FilterError: raise`,
\* `except Exception as e: raise ToolExecutionError(f"...: {e}") from e`
reraise_validation(e, failure) ==
    IF \/ IsInstance(e.type, "monitoring.TimeRangeError")
       \/ IsInstance(e.type, "monitoring.FilterError")
    THEN Raise(e)
    ELSE Raise(Monitoring_ToolExecutionError(failure \o e.msg, From(e)))

\* `except (TimeRangeError, FilterError) as e: raise ToolExecutionError(
\* f"Input validation failed: {str(e)}") from e`, then `except Exception`
wrap_validation(e, failure) ==
    IF \/ IsInstance(e.type, "monitoring.TimeRangeError")
       \/ IsInstance(e.type, "monitoring.FilterError")
    THEN Raise(Monitoring_ToolExecutionError(
                   <<"Input validation failed: ">> \o e.msg, From(e)))
    ELSE Raise(Monitoring_ToolExecutionError(failure \o e.msg, From(e)))

InterfaceLogsTool_execute(args, c, f) ==
    LET failure == <<"Failed to check interface logs: ">>
        l == load_yaml(c, f, "logs/interface_logs.yaml", TRUE)
        rows == Series(Listed(l.outcome.value), <<"row">>)
    IN
    IF args.time < 0
    THEN Executed(reraise_validation(
                      TimeRangeError(<<"Hours must be non-negative">>), failure),
                  c, <<>>, 0)
    ELSE IF ~l.outcome.ok
    THEN Executed(reraise_validation(l.outcome.exc, failure), l.cache,
                  <<"logs/interface_logs.yaml">>, Reads(l))
    ELSE Executed(Return(Output("sql", Len(rows), rows)), l.cache,
                  <<"logs/interface_logs.yaml">>, Reads(l))

BatchLogsTool_execute(args, c, f) ==
    LET failure == <<"Failed to check batch logs: ">>
        l == load_yaml(c, f, "logs/batch_logs.yaml", TRUE)
        rows == Series(Listed(l.outcome.value), <<"row">>)
    IN
    IF args.time < 0
    THEN Executed(reraise_validation(
                      TimeRangeError(<<"Hours must be non-negative">>), failure),
                  c, <<>>, 0)
    ELSE IF ~l.outcome.ok
    THEN Executed(reraise_validation(l.outcome.exc, failure), l.cache,
                  <<"logs/batch_logs.yaml">>, Reads(l))
    ELSE Executed(Return(Output("sql", Len(rows), rows)), l.cache,
                  <<"logs/batch_logs.yaml">>, Reads(l))

ValidLevels == {"DEBUG", "INFO", "WARN", "ERROR"}

\* a faulty variant for comparison: the hits are the records of the
\* requested level
ApplicationLogsTool_execute_by_level(args, c, f) ==
    LET failure == <<"Failed to check application logs: ">>
        l == load_yaml(c, f, "logs/application_logs.yaml", TRUE)
        hits == Series(SelectSeq(Listed(l.outcome.value),
                                 LAMBDA r : r.status = args.choice),
                       <<"hit">>)
    IN
    IF args.time < 0
    THEN Executed(wrap_validation(
                      TimeRangeError(<<"Minutes must be non-negative">>),
                      failure),
                  c, <<>>, 0)
    ELSE IF args.choice \notin ValidLevels
    THEN Executed(wrap_validation(
                      FilterError(<<"Level must be one of ",
                                    "['DEBUG', 'INFO', 'WARN', 'ERROR']">>),
                      failure),
                  c, <<>>, 0)
    ELSE IF ~l.outcome.ok
    THEN Executed(wrap_validation(l.outcome.exc, failure), l.cache,
                  <<"logs/application_logs.yaml">>, Reads(l))
    ELSE Executed(Return(Output("elasticsearch", Len(hits), hits)), l.cache,
                  <<"logs/application_logs.yaml">>, Reads(l))

ApplicationLogsTool_execute(args, c, f) ==
    LET failure == <<"Failed to check application logs: ">>
        l == load_yaml(c, f, "logs/application_logs.yaml", TRUE)
        hits == Series(Listed(l.outcome.value), <<"hit">>)
    IN
    IF args.time < 0
    THEN Executed(wrap_validation(
                      TimeRangeError(<<"Minutes must be non-negative">>),
                      failure),
                  c, <<>>, 0)
    ELSE IF args.choice \notin ValidLevels
    THEN Executed(wrap_validation(
                      FilterError(<<"Level must be one of ",
                                    "['DEBUG', 'INFO', 'WARN', 'ERROR']">>),
                      failure),
                  c, <<>>, 0)
    ELSE IF ~l.outcome.ok
    THEN Executed(wrap_validation(l.outcome.exc, failure), l.cache,
                  <<"logs/application_logs.yaml">>, Reads(l))
    ELSE Executed(Return(Output("elasticsearch", Len(hits), hits)), l.cache,
                  <<"logs/application_logs.yaml">>, Reads(l))

ServerMetricTypes == {"cpu", "memory", "disk_io", "network", "all"}

ServerPerformanceTool_execute(args, c, f) ==
    LET failure == <<"Failed to view server performance: ">>
        l == load_yaml(c, f, "performance/server_metrics.yaml", TRUE)
        metrics == Listed(l.outcome.value)
        family(type, series) ==
            IF args.choice \in {type, "all"} THEN series ELSE <<>>
        results ==
            family("cpu", Series(metrics, <<"node_cpu_usage_percent">>))
            \o family("memory", Series(metrics, <<"node_memory_usage_percent">>))
            \o family("disk_io",
                      Series(metrics, <<"node_disk_read_mbps">>)
                      \o Series(metrics, <<"node_disk_write_mbps">>))
            \o family("network",
                      Series(metrics, <<"node_network_receive_mbps",
                                         "node_network_transmit_mbps">>))
    IN
    IF args.time < 0
    THEN Executed(wrap_validation(
                      TimeRangeError(<<"Minutes must be non-negative">>),
                      failure),
                  c, <<>>, 0)
    ELSE IF args.choice \notin ServerMetricTypes
    THEN Executed(wrap_validation(
                      FilterError(<<"Metric type must be one of ",
                                    "['cpu', 'memory', 'disk_io', 'network', 'all']">>),
                      failure),
                  c, <<>>, 0)
    ELSE IF ~l.outcome.ok
    THEN Executed(wrap_validation(l.outcome.exc, failure), l.cache,
                  <<"performance/server_metrics.yaml">>, Reads(l))
    ELSE Executed(Return(Output("prometheus", -1, results)), l.cache,
                  <<"performance/server_metrics.yaml">>, Reads(l))

\* `services_dict`: the metrics grouped by their service, the groups in the
\* order of their first metric
RECURSIVE GroupedByLabel(_)
GroupedByLabel(records) ==
    IF records = <<>> THEN <<>>
    ELSE SelectSeq(records, LAMBDA r : r.status = Head(records).status)
         \o GroupedByLabel(
                SelectSeq(records, LAMBDA r : r.status # Head(records).status))

ApplicationPerformanceTool_execute(args, c, f) ==
    LET failure == <<"Failed to view application performance: ">>
        l == load_yaml(c, f, "performance/apm_data.yaml", TRUE)
        metrics == Listed(l.outcome.value)
        items == Series(GroupedByLabel(metrics), <<"endpoint">>)
    IN
    IF args.time < 0
    THEN Executed(wrap_validation(
                      TimeRangeError(<<"Minutes must be non-negative">>),
                      failure),
                  c, <<>>, 0)
    ELSE IF ~l.outcome.ok
    THEN Executed(wrap_validation(l.outcome.exc, failure), l.cache,
                  <<"performance/apm_data.yaml">>, Reads(l))
    ELSE Executed(Return(Output("text", Len(metrics), items)), l.cache,
                  <<"performance/apm_data.yaml">>, Reads(l))

ApplicationPerformanceInquiryTool_execute(args, c, f) ==
    LET failure == <<"Failed to query application performance: ">>
        l == load_yaml(c, f, "performance/appl_area_metrics.yaml", TRUE)
        areas == Listed(l.outcome.value)
        result == NestedSeries(areas,
                      <<"appl_area_request_rate", "appl_area_response_time_ms",
                        "appl_area_response_time_ms",
                        "appl_area_response_time_ms", "appl_area_error_count",
                        "appl_area_success_count", "appl_area_throughput_rps",
                        "appl_area_sla_compliant">>)
    IN
    IF args.time < 0
    THEN Executed(reraise_validation(
                      TimeRangeError(<<"Time range must be non-negative">>),
                      failure),
                  c, <<>>, 0)
    ELSE IF ~l.outcome.ok
    THEN Executed(reraise_validation(l.outcome.exc, failure), l.cache,
                  <<"performance/appl_area_metrics.yaml">>, Reads(l))
    ELSE Executed(Return(Output("prometheus", -1, result)), l.cache,
                  <<"performance/appl_area_metrics.yaml">>, Reads(l))

ApiHealthCheckTool_execute(args, c, f) ==
    LET failure == <<"Failed to check API health: ">>
        l == load_yaml(c, f, "health_checks/api_endpoints.yaml", TRUE)
        endpoints == Listed(l.outcome.value)
        result == NestedSeries(endpoints,
                      <<"api_health_up", "api_health_status_code",
                        "api_health_response_time_ms",
                        "api_health_status_code_match", "api_health_status",
                        "api_health_slow_response">>)
    IN
    IF ~l.outcome.ok
    THEN Executed(reraise_validation(l.outcome.exc, failure), l.cache,
                  <<"health_checks/api_endpoints.yaml">>, Reads(l))
    ELSE Executed(Return(Output("prometheus", -1, result)), l.cache,
                  <<"health_checks/api_endpoints.yaml">>, Reads(l))

APMMetricTypes == {"traces", "errors", "latency", "all"}

\* _build_traces_response: one trace per fixture trace
_build_traces_response(traces) == Series(traces, <<"trace">>)

\* _build_metrics_response: the error and the latency series per metric
_build_metrics_response(metrics, metric_type) ==
    Series(metrics,
           (IF metric_type \in {"errors", "all"}
            THEN <<"apm_error_rate_percent", "apm_error_count",
                   "apm_success_count">> ELSE <<>>)
           \o (IF metric_type \in {"latency", "all"}
               THEN <<"apm_trace_duration_seconds",
                      "apm_trace_duration_seconds",
                      "apm_trace_duration_seconds", "apm_request_rate">>
               ELSE <<>>))

CheckAPMTool_execute(args, c, f) ==
    LET failure == <<"Failed to query APM data: ">>
        wants_traces == args.choice \in {"traces", "all"}
        wants_metrics == args.choice \in {"errors", "latency", "all"}
        lt == load_yaml(c, f, "apm/traces.yaml", TRUE)
        c1 == IF wants_traces THEN lt.cache ELSE c
        loads1 == IF wants_traces THEN <<"apm/traces.yaml">> ELSE <<>>
        reads1 == IF wants_traces THEN Reads(lt) ELSE 0
        traces == IF wants_traces
                  THEN _build_traces_response(Listed(lt.outcome.value))
                  ELSE <<>>
        lm == load_yaml(c1, f, "apm/metrics.yaml", TRUE)
        metrics == _build_metrics_response(Listed(lm.outcome.value),
                                           args.choice)
    IN
    IF args.time < 0
    THEN Executed(reraise_validation(
                      TimeRangeError(<<"Minutes must be non-negative">>),
                      failure),
                  c, <<>>, 0)
    ELSE IF args.choice \notin APMMetricTypes
    THEN Executed(reraise_validation(
                      FilterError(<<"Invalid metric_type. Must be one of: ",
                                    "['traces', 'errors', 'latency', 'all']">>),
                      failure),
                  c, <<>>, 0)
    ELSE IF wants_traces /\ ~lt.outcome.ok
    THEN Executed(reraise_validation(lt.outcome.exc, failure), c1, loads1,
                  reads1)
    ELSE IF args.choice = "traces"
    THEN Executed(Return(Output("jaeger", -1, traces)), c1, loads1, reads1)
    ELSE IF ~lm.outcome.ok
    THEN Executed(reraise_validation(lm.outcome.exc, failure), lm.cache,
                  Append(loads1, "apm/metrics.yaml"), reads1 + Reads(lm))
    ELSE Executed(Return(Output(IF args.choice = "all" THEN "all"
                                ELSE "prometheus",
                                -1, traces \o metrics)),
                  lm.cache, Append(loads1, "apm/metrics.yaml"),
                  reads1 + Reads(lm))

\* tool.execute(...), dispatched on the tool's class
Tool_execute(tl, args, c, f) ==
    CASE tl = "InterfaceLogsTool" -> InterfaceLogsTool_execute(args, c, f)
      [] tl = "BatchLogsTool" -> BatchLogsTool_execute(args, c, f)
      [] tl = "ApplicationLogsTool" -> ApplicationLogsTool_execute(args, c, f)
      [] tl = "ServerPerformanceTool" ->
             ServerPerformanceTool_execute(args, c, f)
      [] tl = "ApplicationPerformanceTool" ->
             ApplicationPerformanceTool_execute(args, c, f)
      [] tl = "ApplicationPerformanceInquiryTool" ->
             ApplicationPerformanceInquiryTool_execute(args, c, f)
      [] tl = "CheckAPMTool" -> CheckAPMTool_execute(args, c, f)
      [] tl = "ApiHealthCheckTool" -> ApiHealthCheckTool_execute(args, c, f)

----------------------------------------------------------------------------
(* The monitoring package: the server's tool functions (servers/mcp_server.py) *)

ServerTools ==
    {"check_interface_logs", "check_batch_logs", "check_application_logs",
     "view_server_performance", "view_application_performance",
     "application_performance_inquiry", "check_apm", "check_api_health"}

\* str(n) of an int
StrInt(n) == IF n < 0 THEN <<"-">> \o str(0 - n) ELSE str(n)

\* random.randint(a, b) raises when the range is empty
randint_fails(a, b) == a > b

randint_error(a, b) ==
    Exc("ValueError",
        <<"empty range for randrange() (">> \o StrInt(a) \o <<", ">>
            \o StrInt(b + 1) \o <<", ">> \o StrInt(b + 1 - a) \o <<")">>,
        <<>>, NoDetails)

\* the bounds of `num_results = random.randint(lo, hi)` of each function
NumResults(fn) ==
    CASE fn \in {"check_interface_logs", "check_batch_logs",
                 "view_application_performance", "check_api_health"} -> 3..8
      [] fn = "check_application_logs" -> 3..10
      [] fn \in {"view_server_performance",
                 "application_performance_inquiry"} -> 3..6
      [] fn = "check_apm" -> 4..10

\* the functions whose loop draws random.randint(0, hours) or
\* random.randint(0, minutes)
DrawsFromTimeRange(fn) ==
    fn \in {"check_interface_logs", "check_batch_logs",
            "check_application_logs", "view_server_performance", "check_apm"}

\* the text a function returns: its header line and the result lines
Text(fn, lines) == [t |-> "str", header |-> fn, lines |-> lines]

\* One call of a registered function: num_results is what random.randint
\* gave for the number of results, skipped how many of them check_apm's
\* `error_rate < error_threshold` test skipped.
server_tool(fn, args, error_threshold, num_results, skipped) ==
    IF DrawsFromTimeRange(fn) /\ randint_fails(0, args.time)
    THEN Raise(randint_error(0, args.time))
    ELSE IF fn = "check_apm" /\ error_threshold # 0
    THEN Return(Text(fn, num_results - skipped))
    ELSE Return(Text(fn, num_results))

----------------------------------------------------------------------------
(* The monitoring package: the calls and their arguments *)

\* an execute call or a server function call and what it did
Invocation(at, kind, name, args, outcome, loads, reads) ==
    [at |-> at, kind |-> kind, name |-> name, args |-> args,
     outcome |-> outcome, loads |-> loads, reads |-> reads]

NoInvocation ==
    Invocation("idle", "none", "none", Args(0, "", ""), NoResult, <<>>, 0)

Times == {-1, 0, 5}
Filters == {"all", "HR"}

\* the level / metric_type values passed to each tool
Choices(tl) ==
    CASE tl \in {"ApplicationLogsTool", "check_application_logs"} ->
             {"ERROR", "INFO", "TRACE"}
      [] tl \in {"ServerPerformanceTool", "view_server_performance"} ->
             {"cpu", "disk_io", "all", "gpu"}
      [] tl \in {"CheckAPMTool", "check_apm"} ->
             {"traces", "errors", "latency", "all", "spans"}
      [] OTHER -> {""}

ArgsOf(tl) == {Args(tm, ch, fl) : tm \in Times, ch \in Choices(tl), fl \in Filters}

\* error_threshold of check_apm: None (0) or a percentage
Thresholds == {0, 5}

\* the fixture layouts: every file in the same state, or apm/metrics.yaml
\* missing beside intact files
ToolLayouts ==
    {[fp \in Filepaths |-> s] : s \in FileStates}
    \cup {[fp \in Filepaths |->
              IF fp = "apm/metrics.yaml" THEN File("missing", <<>>)
              ELSE File("doc", l)] : l \in RecordLists}

\* the filepaths the concurrent callers of load_yaml load
LoaderPaths == {"logs/interface_logs.yaml", "health_checks/api_endpoints.yaml"}

\* the layouts under the concurrent callers: logs/interface_logs.yaml in
\* any state, the other files intact
LoaderLayouts ==
    {[fp \in Filepaths |->
         IF fp = "logs/interface_logs.yaml" THEN s
         ELSE File("doc", <<Record(<<"r1">>, "SUCCESS", 1)>>)] :
        s \in {File(k, <<>>) : k \in {"missing", "unreadable", "malformed",
                                      "empty"}}
              \cup {File("doc", <<Record(<<"r2">>, "ERROR", 2)>>)}}

\* no monitoring package in the picture
MonitoringAbsent ==
    /\ files = [fp \in Filepaths |-> File("missing", <<>>)]
    /\ cache = EmptyCache
    /\ cleared = FALSE
    /\ loaders = [k \in Callers |-> NoLoader]
    /\ subject = "none"
    /\ invocation = NoInvocation

----------------------------------------------------------------------------
(* One invocation, step by step *)

\* A method called on its own: which one, on what string or keyword
\* arguments, what the patched client.get gave it, and its outcome.
Unit(op, ip, kw, got, out) ==
    [op |-> op, ip |-> ip, kw |-> kw, got |-> got, out |-> out]

NoUnit == Unit("none", <<>>, NoKwargs, NoResult, NoResult)

\* The four tools are constructed and enabled; no registered function of
\* the API server and no method on its own has been called.
FrontendAbsent ==
    /\ metadata = [t \in Tools |-> BaseTool_init(t)]
    /\ enabled = [t \in Tools |-> TRUE]
    /\ server_result = NoResult
    /\ unit = NoUnit

Init ==
    /\ pc = "idle"
    /\ tool = "weather"
    /\ kwargs = NoKwargs
    /\ max_retries \in {HTTPClient_init(0, n) : n \in 1..MaxConfiguredRetries}
    /\ retry_delay \in {HTTPClient_init(0, d) : d \in 1..MaxConfiguredDelay}
    /\ client = "none"
    /\ open_clients = 0
    /\ script = <<>>
    /\ attempt_number = 0
    /\ transport_calls = 0
    /\ slept = <<>>
    /\ validate_result = NoExc
    /\ get_result = NoResult
    /\ exec_result = NoResult
    /\ call_result = NoResult
    /\ post_result = NoResult
    /\ MonitoringAbsent
    /\ FrontendAbsent

\* the caller awaits tool(**kw): __call__ logs and enters its try block
Call(t, kw) ==
    /\ pc = "idle"
    /\ pc' = "validating"
    /\ tool' = t
    /\ kwargs' = kw
    /\ UNCHANGED <<max_retries, retry_delay, client, open_clients, script, attempt_number,
                   transport_calls, slept, validate_result, get_result,
                   exec_result, call_result>>
    /\ metadata' = [metadata EXCEPT ![t] = read_metadata(metadata[t])]
    /\ UNCHANGED <<post_result, frontVars, mockVars>>

\* self.validate_input(**kwargs); what it raises leaves __call__ at once
ValidateInput ==
    /\ pc = "validating"
    /\ LET e == validate_input(tool, kwargs) IN
       /\ validate_result' = e
       /\ IF e # NoExc
          THEN /\ call_result' = BaseTool_call(Raise(e))
               /\ pc' = "done"
          ELSE /\ pc' = "executing"
               /\ UNCHANGED call_result
    /\ UNCHANGED <<tool, kwargs, max_retries, retry_delay, client, open_clients, script,
                   attempt_number, transport_calls, slept, get_result,
                   exec_result>>
    /\ metadata' = [metadata EXCEPT ![tool] = read_metadata(metadata[tool])]
    /\ UNCHANGED <<post_result, frontVars, mockVars>>

\* execute up to `async with HTTPClient() as client`: the URL is built, the
\* client constructed and entered; sc is how the upstream will answer
ExecuteEnter(sc) ==
    /\ pc = "executing"
    /\ pc' = "requesting"
    /\ client' = HTTPClient_aenter(client)
    /\ open_clients' = open_clients + 1
    /\ script' = sc
    /\ attempt_number' = 1
    /\ UNCHANGED <<tool, kwargs, max_retries, retry_delay, transport_calls, slept,
                   validate_result, get_result, exec_result, call_result>>
    /\ UNCHANGED <<post_result, metadata, frontVars, mockVars>>

\* One attempt of client.get(url) under the retry decorator: the body runs
\* against the transport; tenacity then either sleeps and starts the next
\* attempt, or lets the value or the exception out (reraise=True).
Attempt ==
    /\ pc = "requesting"
    /\ LET a == TransportAnswer(script, transport_calls + 1)
           r == get_body(client, Url(tool, kwargs), a)
       IN
       /\ transport_calls' =
              IF InvokesTransport(client) THEN transport_calls + 1
              ELSE transport_calls
       /\ IF ~r.ok /\ retry_if_exception_type(r.exc)
                   /\ ~stop_after_attempt(attempt_number)
          THEN /\ slept' = Append(slept, wait_exponential(attempt_number))
               /\ attempt_number' = attempt_number + 1
               /\ UNCHANGED <<pc, get_result>>
          ELSE /\ get_result' = r
               /\ pc' = "fetched"
               /\ UNCHANGED <<slept, attempt_number>>
    /\ UNCHANGED <<tool, kwargs, max_retries, retry_delay, client, open_clients, script,
                   validate_result, exec_result, call_result>>
    /\ UNCHANGED <<post_result, metadata, frontVars, mockVars>>

\* leaving the `async with` block, by return or by exception: __aexit__
ClientExit ==
    /\ pc = "fetched"
    /\ pc' = "shaping"
    /\ client' = HTTPClient_aexit(client)
    /\ open_clients' =
           IF client = "open" /\ HTTPClient_aexit(client) = "closed"
           THEN open_clients - 1 ELSE open_clients
    /\ UNCHANGED <<tool, kwargs, max_retries, retry_delay, script, attempt_number,
                   transport_calls, slept, validate_result, get_result,
                   exec_result, call_result>>
    /\ UNCHANGED <<post_result, metadata, frontVars, mockVars>>

\* the rest of execute (the mapping of the data, the except clauses) and
\* the end of __call__
ExecuteFinish ==
    /\ pc = "shaping"
    /\ pc' = "done"
    /\ exec_result' = execute(tool, kwargs, get_result)
    /\ call_result' = BaseTool_call(execute(tool, kwargs, get_result))
    /\ UNCHANGED <<tool, kwargs, max_retries, retry_delay, client, open_clients, script,
                   attempt_number, transport_calls, slept, validate_result,
                   get_result>>
    /\ metadata' = [metadata EXCEPT ![tool] = read_metadata(metadata[tool])]
    /\ UNCHANGED <<post_result, frontVars, mockVars>>

\* the URLs a direct user of the client posts to
PostUrls == {<<"https://api.example.com/items">>}

\* A direct use of the client, `async with HTTPClient() as client:` followed
\* by `await client.post(url, json=...)`: the client is constructed and
\* entered; sc is how the upstream will answer
PostEnter(sc) ==
    /\ pc = "idle"
    /\ pc' = "posting"
    /\ client' = HTTPClient_aenter(client)
    /\ open_clients' = open_clients + 1
    /\ script' = sc
    /\ UNCHANGED <<tool, kwargs, max_retries, retry_delay, attempt_number,
                   transport_calls, slept, validate_result, get_result,
                   exec_result, call_result, post_result>>
    /\ UNCHANGED <<metadata, frontVars, mockVars>>

\* client.post(url): its body runs once against the transport
Post(url) ==
    /\ pc = "posting"
    /\ pc' = "posted"
    /\ post_result' = post_body(client, url,
                                TransportAnswer(script, transport_calls + 1))
    /\ transport_calls' =
           IF InvokesTransport(client) THEN transport_calls + 1
           ELSE transport_calls
    /\ UNCHANGED <<tool, kwargs, max_retries, retry_delay, client, open_clients,
                   script, attempt_number, slept, validate_result, get_result,
                   exec_result, call_result>>
    /\ UNCHANGED <<metadata, frontVars, mockVars>>

\* leaving the `async with` block after post: __aexit__
PostExit ==
    /\ pc = "posted"
    /\ pc' = "post_done"
    /\ client' = HTTPClient_aexit(client)
    /\ open_clients' =
           IF client = "open" /\ HTTPClient_aexit(client) = "closed"
           THEN open_clients - 1 ELSE open_clients
    /\ UNCHANGED <<tool, kwargs, max_retries, retry_delay, script,
                   attempt_number, transport_calls, slept, validate_result,
                   get_result, exec_result, call_result, post_result>>
    /\ UNCHANGED <<metadata, frontVars, mockVars>>

\* the caller has the result or the exception; the invocation's frames and
\* its HTTPClient object are gone, the tool object is ready for the next call
Finish ==
    /\ pc \in {"done", "post_done"}
    /\ pc' = "idle"
    /\ tool' = "weather"
    /\ kwargs' = NoKwargs
    /\ client' = "none"
    /\ script' = <<>>
    /\ attempt_number' = 0
    /\ transport_calls' = 0
    /\ slept' = <<>>
    /\ validate_result' = NoExc
    /\ get_result' = NoResult
    /\ exec_result' = NoResult
    /\ call_result' = NoResult
    /\ post_result' = NoResult
    /\ UNCHANGED <<max_retries, retry_delay, open_clients>>
    /\ UNCHANGED <<metadata, frontVars, mockVars>>

Next ==
    \/ \E t \in Tools : \E kw \in Inputs(t) : Call(t, kw)
    \/ ValidateInput
    \/ \E sc \in Scripts : ExecuteEnter(sc)
    \/ Attempt
    \/ ClientExit
    \/ ExecuteFinish
    \/ \E sc \in Scripts : PostEnter(sc)
    \/ \E url \in PostUrls : Post(url)
    \/ PostExit
    \/ Finish

Spec == Init /\ [][Next]_vars

----------------------------------------------------------------------------
(* Properties of HTTPClient.get *)

\* client.get has returned or raised
GetDone == pc \in {"fetched", "shaping", "done"} /\ Len(script) > 0

\* the answer that the last attempt of get received
LastAnswer == TransportAnswer(script, transport_calls)

\* every attempt, however many are made, fails transiently
AlwaysTransient == \A k \in 1..Len(script) : IsTransient(script[k])

\* C1: when the transport answers two transient failures (timeout or network
\* error) and then a success, get returns the success result and the
\* transport has been invoked exactly 3 times.
C1_TwoFailuresThenSuccess ==
    (/\ GetDone
     /\ Len(script) = 3
     /\ IsTransient(script[1])
     /\ IsTransient(script[2])
     /\ script[3].kind = "ok")
    => /\ get_result = Return(script[3].json)
       /\ transport_calls = 3

\* C2: with the default max-retry count (3), when every attempt fails
\* transiently, get raises TimeoutError (timeout) or APIError (network error)
\* chained to the last underlying cause, after exactly max_retries transport
\* invocations.
C2_ExhaustedRetries ==
    (GetDone /\ AlwaysTransient /\ max_retries = 3)
    => /\ ~get_result.ok
       /\ get_result.exc.type =
              (IF TransportAnswer(script, max_retries).kind = "timeout"
               THEN "TimeoutError" ELSE "APIError")
       /\ get_result.exc.causes =
              From(LibraryException(TransportAnswer(script, max_retries)))
       /\ transport_calls = max_retries

\* C3: a non-2xx response makes get raise APIError carrying the status code
\* (and the body, when the response has one) after exactly one transport
\* invocation; a non-2xx response is never followed by another attempt.
C3_StatusErrorNotRetried ==
    GetDone =>
       /\ script[1].kind = "status" =>
             /\ ~get_result.ok
             /\ get_result.exc.type = "APIError"
             /\ "status_code" \in get_result.exc.details.keys
             /\ get_result.exc.details.status_code = script[1].code
             /\ script[1].body # <<>> =>
                   /\ "response_text" \in get_result.exc.details.keys
                   /\ get_result.exc.details.response_text = script[1].body
             /\ transport_calls = 1
       /\ \A k \in 1..(transport_calls - 1) :
             TransportAnswer(script, k).kind # "status"

C3_Witness ==
    /\ GetDone
    /\ script[1].kind = "status"
    /\ script[1].code = 404
    /\ script[1].body # <<>>
    /\ get_result.exc.details.status_code = 404

\* C7: the retry policy follows the client's configuration: under persistent
\* transient failure the transport is attempted max_retries times, and the
\* waits between the attempts are the backoff on the base retry_delay.
C7_ConfiguredRetryPolicy ==
    (GetDone /\ AlwaysTransient)
    => /\ transport_calls = max_retries
       /\ \A i \in 1..Len(slept) :
             slept[i] = Min(WaitMax, retry_delay * Pow2(i - 1))

\* the number of transient failures the script starts with (its last answer
\* is repeated for ever: if transient, there are more than StopAttempts)
RECURSIVE LeadingTransient(_)
LeadingTransient(sc) ==
    IF sc # <<>> /\ IsTransient(Head(sc))
    THEN 1 + (IF Len(sc) = 1 THEN StopAttempts ELSE LeadingTransient(Tail(sc)))
    ELSE 0

\* C8: between consecutive attempts get waits min(10, base * 2^attempt)
\* seconds (attempt = 0, 1, ...): after each transient failure that is
\* followed by another attempt there is such a wait, the waits are
\* non-decreasing and none exceeds the 10-second cap.
C8_ExponentialBackoff ==
    GetDone =>
       /\ Len(slept) = Min(LeadingTransient(script), StopAttempts - 1)
       /\ \A i \in 1..Len(slept) :
             /\ slept[i] = Min(10, WaitMultiplier * Pow2(i - 1))
             /\ slept[i] <= 10
             /\ \A j \in 1..i : slept[j] <= slept[i]

\* C9: a 2xx response whose body is not JSON makes get raise APIError:
\* no result is returned and no other kind of exception leaves get.
C9_MalformedBodyIsAPIError ==
    (GetDone /\ LastAnswer.kind = "badjson")
    => /\ ~get_result.ok
       /\ get_result.value = NoValue
       /\ get_result.exc.type = "APIError"

C9_Witness ==
    /\ GetDone
    /\ LastAnswer.kind = "badjson"
    /\ get_result.exc.type = "APIError"

\* C11: post runs under the same retry policy as get: a transient failure
\* (timeout or network error) followed by a success yields the success
\* result, while a non-2xx response raises APIError after one attempt.
C11_PostRetriesThenSucceeds ==
    pc \in {"posted", "post_done"} =>
       /\ (/\ Len(script) = 2
           /\ IsTransient(script[1])
           /\ script[2].kind = "ok")
          => post_result = Return(script[2].json)
       /\ script[1].kind = "status" =>
             /\ ~post_result.ok
             /\ post_result.exc.type = "APIError"
             /\ post_result.exc.details.status_code = script[1].code
             /\ transport_calls = 1

----------------------------------------------------------------------------
(* Properties of the invocation *)

\* The constraints stated for the parameters of the four tools.
NonEmptyString(v) == IsStr(v) /\ Len(v.s) > 0
CurrencyCode(v) == IsStr(v) /\ Len(v.s) = 3 /\ isalpha(v.s)
PositiveNumber(v) == v.t = "int" /\ v.n > 0

ViolatesConstraint(t, kw) ==
    CASE t = "weather" -> ~NonEmptyString(kw.location)
      [] t = "ip_info" ->
             /\ ~IsNone(kw.ip_address)
             /\ kw.ip_address # PyStr(<<>>)
             /\ ~(IsStr(kw.ip_address) /\ _is_valid_ip(strip(kw.ip_address.s)))
      [] t = "dictionary" ->
             ~(/\ IsStr(kw.word)
               /\ Len(strip(kw.word.s)) > 0
               /\ isalpha(replace(replace(strip(kw.word.s), "-"), "'")))
      [] t = "exchange_rate" ->
             \/ ~CurrencyCode(kw.base_currency)
             \/ ~IsNone(kw.target_currency) /\ ~CurrencyCode(kw.target_currency)
             \/ ~IsNone(kw.amount) /\ ~PositiveNumber(kw.amount)

\* C4: validate_input runs to completion before execute starts, and for
\* every tool and every parameter set that violates a stated constraint the
\* call ends in ValidationError with the transport invoked zero times.
C4_ViolationEndsInValidationError ==
    /\ pc \in {"executing", "requesting", "fetched", "shaping"} =>
          /\ validate_result = validate_input(tool, kwargs)
          /\ validate_result = NoExc
    /\ ViolatesConstraint(tool, kwargs) =>
          /\ transport_calls = 0
          /\ pc = "done" =>
                /\ ~call_result.ok
                /\ call_result.exc.type = "ValidationError"

\* The part of C4 that holds of the code: execute starts only after
\* validate_input has returned without raising, and whenever validate_input
\* raises, the call ends in that ValidationError with no transport call.
ValidationPrecedesExecute ==
    /\ pc \in {"executing", "requesting", "fetched", "shaping"} =>
          /\ validate_result = validate_input(tool, kwargs)
          /\ validate_result = NoExc
    /\ (pc \in {"validating", "done"} /\ validate_input(tool, kwargs) # NoExc) =>
          /\ transport_calls = 0
          /\ open_clients = 0
          /\ pc = "done" => call_result = Raise(validate_input(tool, kwargs))

\* C5: __call__ re-raises whatever validate_input or execute raised as the
\* very same error, and on success returns exactly what execute returned.
C5_CallPassesOutcomeThrough ==
    pc = "done" =>
       call_result = (IF validate_result # NoExc THEN Raise(validate_result)
                      ELSE exec_result)

C5_Witness ==
    /\ pc = "done"
    /\ validate_result = NoExc
    /\ ~exec_result.ok
    /\ call_result.exc.type = "ToolExecutionError"

\* an exception outside the taxonomy and outside the HTTP library's own
IsGeneric(type) ==
    /\ ~IsInstance(type, "MCPServerError")
    /\ ~IsInstance(type, "httpx.HTTPError")

\* C6: every failing invocation raises one error of the taxonomy (a subclass
\* of MCPServerError); a generic exception raised during the work reaches
\* the caller re-wrapped as ToolExecutionError whose message contains the
\* original message.
C6_TypedErrorKeepsOriginalMessage ==
    (pc = "done" /\ ~call_result.ok) =>
       /\ IsInstance(call_result.exc.type, "MCPServerError")
       /\ \A i \in 1..Len(call_result.exc.causes) :
             IsGeneric(call_result.exc.causes[i].type) =>
                /\ call_result.exc.type = "ToolExecutionError"
                /\ Contains(call_result.exc.msg, call_result.exc.causes[i].msg)

\* C10: the connection is scoped to the call: once the invocation has
\* finished, on whatever path, the HTTP client it opened is closed, and no
\* open client is left after any sequence of invocations.
C10_ClientClosedAfterInvocation ==
    /\ pc \in {"shaping", "done", "post_done"} => client # "open"
    /\ pc \in {"done", "post_done", "idle"} => open_clients = 0

C10_Witness ==
    /\ pc = "done"
    /\ client = "closed"
    /\ ~get_result.ok
    /\ get_result.exc.type = "TimeoutError"

----------------------------------------------------------------------------
(* The monitoring package, step by step *)

\* the API-backed server is not in the picture
ApiAbsent ==
    /\ pc = "idle"
    /\ tool = "weather"
    /\ kwargs = NoKwargs
    /\ max_retries = StopAttempts
    /\ retry_delay = WaitMultiplier
    /\ client = "none"
    /\ open_clients = 0
    /\ script = <<>>
    /\ attempt_number = 0
    /\ transport_calls = 0
    /\ slept = <<>>
    /\ validate_result = NoExc
    /\ get_result = NoResult
    /\ exec_result = NoResult
    /\ call_result = NoResult
    /\ post_result = NoResult

apiVars == <<pc, tool, kwargs, max_retries, retry_delay, client, open_clients,
             script, attempt_number, transport_calls, slept, validate_result,
             get_result, exec_result, call_result, post_result>>

apiVarsButPc == <<tool, kwargs, max_retries, retry_delay, client, open_clients,
                  script, attempt_number, transport_calls, slept,
                  validate_result, get_result, exec_result, call_result,
                  post_result>>

\* A caller enters load_yaml(filepath, use_cache): line 43, and on a hit
\* line 45.
LoadYamlCall(k, filepath, use_cache) ==
    /\ loaders[k].at = "idle"
    /\ loaders' =
           [loaders EXCEPT ![k] =
                IF cache_hit(cache, filepath, use_cache)
                THEN Loader("returned", filepath, use_cache, PyNone,
                            cache_lookup(cache, filepath), cache[filepath],
                            FALSE, FALSE)
                ELSE Loader("missed", filepath, use_cache, PyNone, NoResult,
                            cache[filepath], FALSE, FALSE)]
    /\ UNCHANGED <<files, cache, cleared, subject, invocation>>
    /\ UNCHANGED <<metadata, frontVars, apiVars>>

\* lines 47-53: the file is looked up, opened and parsed; a failure leaves
\* load_yaml as DataLoadError
LoadYamlRead(k) ==
    /\ loaders[k].at = "missed"
    /\ LET l == loaders[k]
           r == read_and_parse(files[l.filepath], l.filepath)
       IN  loaders' =
               [loaders EXCEPT ![k] =
                    IF r.ok
                    THEN [l EXCEPT !.at = "parsed", !.data = r.value,
                                   !.read_file = TRUE]
                    ELSE [l EXCEPT !.at = "returned", !.result = r,
                                   !.read_file = TRUE]]
    /\ UNCHANGED <<files, cache, cleared, subject, invocation>>
    /\ UNCHANGED <<metadata, frontVars, apiVars>>

\* line 56: self._cache[filepath] = data or {}
LoadYamlStore(k) ==
    /\ loaders[k].at = "parsed"
    /\ LET l == loaders[k] IN
       /\ cache' = cache_store(cache, l.filepath, l.data)
       /\ loaders' = [loaders EXCEPT ![k] = [l EXCEPT !.at = "stored"]]
    /\ cleared' = FALSE
    /\ UNCHANGED <<files, subject, invocation>>
    /\ UNCHANGED <<metadata, frontVars, apiVars>>

\* line 57: return self._cache[filepath]
LoadYamlReturn(k) ==
    /\ loaders[k].at = "stored"
    /\ LET l == loaders[k] IN
       loaders' = [loaders EXCEPT ![k] =
                       [l EXCEPT !.at = "returned",
                                 !.result = cache_lookup(cache, l.filepath)]]
    /\ UNCHANGED <<files, cache, cleared, subject, invocation>>
    /\ UNCHANGED <<metadata, frontVars, apiVars>>

\* the caller has what load_yaml returned or raised
LoadYamlDone(k) ==
    /\ loaders[k].at = "returned"
    /\ loaders' = [loaders EXCEPT ![k] = NoLoader]
    /\ UNCHANGED <<files, cache, cleared, subject, invocation>>
    /\ UNCHANGED <<metadata, frontVars, apiVars>>

\* data_loader.clear_cache()
ClearCache ==
    /\ cache' = clear_cache(cache)
    /\ cleared' = TRUE
    /\ loaders' = [k \in Callers |->
                      IF loaders[k].at = "stored"
                      THEN [loaders[k] EXCEPT !.cleared_under = TRUE]
                      ELSE loaders[k]]
    /\ UNCHANGED <<files, subject, invocation>>
    /\ UNCHANGED <<metadata, frontVars, apiVars>>

\* await tool.execute(...) of the tool constructed on the loader: execute
\* has no await inside, it runs from its call to its end in one piece
Execute(args) ==
    /\ invocation.at = "idle"
    /\ subject \in MockTools
    /\ LET e == Tool_execute(subject, args, cache, files) IN
       /\ invocation' = Invocation("done", "execute", subject, args,
                                   e.outcome, e.loads, e.reads)
       /\ cache' = e.cache
       /\ cleared' = IF e.cache # cache THEN FALSE ELSE cleared
    /\ UNCHANGED <<files, loaders, subject>>
    /\ UNCHANGED <<metadata, frontVars, apiVars>>

\* a call of a function registered on the server with @mcp_server.tool()
ServerCall(fn, args, error_threshold, num_results, skipped) ==
    /\ invocation.at = "idle"
    /\ invocation' =
           Invocation("done", "server", fn, args,
                      server_tool(fn, args, error_threshold, num_results,
                                  skipped),
                      <<>>, 0)
    /\ UNCHANGED <<files, cache, cleared, loaders, subject>>
    /\ UNCHANGED <<metadata, frontVars, apiVars>>

\* the caller has the result or the exception
InvocationDone ==
    /\ invocation.at = "done"
    /\ invocation' = NoInvocation
    /\ UNCHANGED <<files, cache, cleared, loaders, subject>>
    /\ UNCHANGED <<metadata, frontVars, apiVars>>

\* The DataLoader under concurrent callers of load_yaml, with clear_cache
\* and the executions of a tool constructed on it.
LoaderInit ==
    /\ ApiAbsent
    /\ FrontendAbsent
    /\ files \in LoaderLayouts
    /\ cache = EmptyCache
    /\ cleared = FALSE
    /\ loaders = [k \in Callers |-> NoLoader]
    /\ subject = "ApiHealthCheckTool"
    /\ invocation = NoInvocation

LoaderNext ==
    \/ \E k \in Callers : \E fp \in LoaderPaths : \E uc \in BOOLEAN :
           LoadYamlCall(k, fp, uc)
    \/ \E k \in Callers : LoadYamlRead(k)
    \/ \E k \in Callers : LoadYamlStore(k)
    \/ \E k \in Callers : LoadYamlReturn(k)
    \/ \E k \in Callers : LoadYamlDone(k)
    \/ ClearCache
    \/ Execute(Args(0, "", "all"))
    \/ InvocationDone

LoaderSpec == LoaderInit /\ [][LoaderNext]_vars

\* One tool constructed on a DataLoader and executed again and again, and
\* the calls of the server's registered functions.
ToolsInit ==
    /\ ApiAbsent
    /\ FrontendAbsent
    /\ files \in ToolLayouts
    /\ cache = EmptyCache
    /\ cleared = FALSE
    /\ loaders = [k \in Callers |-> NoLoader]
    /\ subject \in MockTools
    /\ invocation = NoInvocation

ToolsNext ==
    \/ \E args \in ArgsOf(subject) : Execute(args)
    \/ \E fn \in ServerTools : \E args \in ArgsOf(fn) :
       \E th \in Thresholds : \E n \in {lo \in NumResults(fn) :
           \A x \in NumResults(fn) : lo <= x} : \E sk \in {0, n} :
           ServerCall(fn, args, th, n, sk)
    \/ InvocationDone
    \/ ClearCache

ToolsSpec == ToolsInit /\ [][ToolsNext]_vars

----------------------------------------------------------------------------
(* The monitoring package: the tools and the server's functions (ToolsSpec) *)

\* the tools whose execute takes hours / minutes / time_range_minutes
TakesTimeRange(tl) == tl # "ApiHealthCheckTool"

\* the allowed set of the tool's level / metric_type (valid_levels,
\* valid_types); a tool without such a parameter allows what it is given
AllowedChoices(tl) ==
    CASE tl = "ApplicationLogsTool" -> ValidLevels
      [] tl = "ServerPerformanceTool" -> ServerMetricTypes
      [] tl = "CheckAPMTool" -> APMMetricTypes
      [] OTHER -> {""}

ExecuteDone == invocation.at = "done" /\ invocation.kind = "execute"

\* C12: for every tool class, execute with a negative hours / minutes /
\* time_range_minutes raises TimeRangeError, and execute with a level /
\* metric_type outside the allowed set (the time range being valid) raises
\* FilterError; the caller gets that ValidationError subtype itself.
C12_ValidationErrorsReachCaller ==
    ExecuteDone =>
       /\ (TakesTimeRange(invocation.name) /\ invocation.args.time < 0) =>
             /\ ~invocation.outcome.ok
             /\ invocation.outcome.exc.type = "monitoring.TimeRangeError"
       /\ (/\ invocation.args.time >= 0
           /\ invocation.args.choice \notin AllowedChoices(invocation.name)) =>
             /\ ~invocation.outcome.ok
             /\ invocation.outcome.exc.type = "monitoring.FilterError"

\* C13: a call of a function registered on the server, whatever its
\* arguments, returns its text or raises an error of the package's taxonomy
\* (a MonitoringError); no other exception reaches the caller.
C13_ServerCallsRaiseOnlyTypedErrors ==
    (invocation.at = "done" /\ invocation.kind = "server") =>
       \/ invocation.outcome.ok /\ invocation.outcome.value.t = "str"
       \/ /\ ~invocation.outcome.ok
          /\ IsInstance(invocation.outcome.exc.type, "monitoring.MonitoringError")
          /\ invocation.outcome.exc.msg # <<>>

\* the records of the fixtures an execute loaded, in the order of the loads
RECURSIVE FixtureRecords(_)
FixtureRecords(loads) ==
    IF loads = <<>> THEN <<>>
    ELSE (IF files[Head(loads)].kind = "doc" THEN files[Head(loads)].records
          ELSE <<>>)
         \o FixtureRecords(Tail(loads))

\* how many of the emitted items were built from the record `id`
EmittedFor(items, id) ==
    Cardinality({i \in 1..Len(items) : items[i].source = id})

C19_AtMostOneFixtureRead ==
    ExecuteDone => Len(invocation.loads) <= 1 /\ invocation.reads <= 1

----------------------------------------------------------------------------
(* The monitoring package: the DataLoader's cache (LoaderSpec) *)

\* the load_yaml calls in progress or just returned
InLoad == {k \in Callers : loaders[k].at # "idle"}

C16_CacheIsAppendOnly ==
    [][/\ \A k \in Callers :
              (loaders[k].at = "parsed" /\ loaders'[k].at = "stored") =>
                 ~cache[loaders[k].filepath].present
       /\ (/\ invocation.at = "idle"
           /\ invocation'.at = "done"
           /\ invocation'.kind = "execute"
           /\ invocation'.reads > 0) =>
              \E i \in 1..Len(invocation'.loads) :
                  ~cache[invocation'.loads[i]].present
       /\ \A fp \in Filepaths :
              (cache[fp].present /\ cache'[fp] # cache[fp]) =>
                 cache' = EmptyCache]_vars

\* what load_yaml makes of the whole file: the parsed mapping, {} for an
\* empty file
FullContent(fp) ==
    Dict(files[fp].kind = "doc",
         IF files[fp].kind = "doc" THEN files[fp].records ELSE <<>>)

Parseable(fp) == files[fp].kind \in {"doc", "nokey", "empty"}

\* C17: callers racing on the first load of a filepath may each read the
\* file, and still: an entry of the cache is always the whole parsed
\* content of its file; a caller that went to the file gets that whole
\* content back (clear_cache not running between its store and its return);
\* whatever a caller gets back is the whole content; and once a caller has
\* stored, the cache holds the content under the filepath.
C17_RacingLoadsDoNotCorrupt ==
    /\ \A fp \in Filepaths :
           cache[fp].present => Parseable(fp) /\ cache[fp].data = FullContent(fp)
    /\ \A k \in InLoad :
           LET l == loaders[k] IN
           /\ (l.at = "returned" /\ l.result.ok) =>
                 l.result.value = FullContent(l.filepath)
           /\ (/\ l.at = "returned"
               /\ l.read_file
               /\ Parseable(l.filepath)
               /\ ~l.cleared_under) => l.result.ok
           /\ (l.at = "stored" /\ ~l.cleared_under) =>
                 cache[l.filepath] = Cached(FullContent(l.filepath))

\* both callers missed the same filepath, both read the file, both returned
\* its records, and the cache holds them
C17_Witness ==
    /\ \A k \in Callers :
           /\ loaders[k].at = "returned"
           /\ loaders[k].filepath = "logs/interface_logs.yaml"
           /\ loaders[k].use_cache
           /\ ~loaders[k].found.present
           /\ loaders[k].read_file
           /\ loaders[k].result.ok
           /\ loaders[k].result.value.records # <<>>
    /\ cache["logs/interface_logs.yaml"].present

\* a load_yaml call ends by raising: the step from line 47-53 to the caller
LoadFails(k) ==
    /\ loaders[k].at = "missed"
    /\ loaders'[k].at = "returned"
    /\ ~loaders'[k].result.ok

\* C18: load_yaml of a missing file or of a file that is not YAML raises
\* DataLoadError; no entry is ever in the cache for such a file; and the
\* failing load leaves the cache as it was.
C18_FailedLoadRaisesAndKeepsCache ==
    /\ [](/\ \A k \in InLoad :
                (/\ loaders[k].at = "returned"
                 /\ loaders[k].read_file
                 /\ files[loaders[k].filepath].kind \in {"missing", "malformed"})
                => /\ ~loaders[k].result.ok
                   /\ loaders[k].result.exc.type = "monitoring.DataLoadError"
          /\ \A fp \in Filepaths :
                files[fp].kind \in {"missing", "malformed"} => ~cache[fp].present)
    /\ [][\A k \in Callers : LoadFails(k) => cache' = cache]_vars

\* load_yaml of the missing logs/interface_logs.yaml raised DataLoadError
\* while the cache held health_checks/api_endpoints.yaml
C18_Witness ==
    \E k \in Callers :
        /\ loaders[k].at = "returned"
        /\ files[loaders[k].filepath].kind = "missing"
        /\ ~loaders[k].result.ok
        /\ loaders[k].result.exc.type = "monitoring.DataLoadError"
        /\ cache["health_checks/api_endpoints.yaml"].present
        /\ cached_items(cache) = 1

----------------------------------------------------------------------------
(* ExchangeRateTool's result (Spec) *)

\* execute of ExchangeRateTool got the rates document from the upstream
RatesFetched ==
    /\ pc = "done"
    /\ tool = "exchange_rate"
    /\ get_result.ok
    /\ get_result.value.t = "dict"
    /\ get_result.value.result # PyStr(<<"error">>)

\* C20: with the rates fetched, execute ends in one of three ways. With a
\* target_currency that is a key of the rates (upper-cased): a result with
\* `conversion` = from the upper-cased base, to the upper-cased target, the
\* target's rate, the given amount (1.0 when omitted) and result = amount *
\* rate, and without `rates`. With a target_currency that is no key of the
\* rates: ToolExecutionError. Without target_currency: a result with the
\* whole rate mapping and available_currencies = its keys, and without
\* `conversion`.
C20_ExchangeRateResultShapes ==
    RatesFetched =>
       LET rates == get_result.value.rates
           target == upper(kwargs.target_currency.s)
           at == {i \in 1..Len(rates) : rates[i].code = target}
           amount == IF IsNone(kwargs.amount) THEN PyInt(1) ELSE kwargs.amount
       IN
       IF IsNone(kwargs.target_currency)
       THEN /\ exec_result.ok
            /\ ~exec_result.value.conversion.present
            /\ exec_result.value.listing.present
            /\ exec_result.value.listing.rates = rates
            /\ exec_result.value.listing.available_currencies
                 = [i \in 1..Len(rates) |-> rates[i].code]
       ELSE IF at = {}
       THEN /\ ~exec_result.ok
            /\ exec_result.exc.type = "ToolExecutionError"
       ELSE /\ exec_result.ok
            /\ ~exec_result.value.listing.present
            /\ exec_result.value.conversion.present
            /\ exec_result.value.conversion.from = upper(kwargs.base_currency.s)
            /\ exec_result.value.conversion.to = target
            /\ exec_result.value.conversion.amount = amount
            /\ \A i \in at :
                   /\ exec_result.value.conversion.rate = rates[i].rate
                   /\ exec_result.value.conversion.result =
                          IF amount.t = "nan" THEN PyNaN
                          ELSE Float4(amount.n * rates[i].rate.n)

\* execute(base_currency="usd", target_currency="eur", amount=100) on rates
\* with EUR at 0.8423 returned conversion.result = 84.23
C20_Witness ==
    /\ RatesFetched
    /\ kwargs.base_currency = PyStr(<<"u", "s", "d">>)
    /\ kwargs.target_currency = PyStr(<<"e", "u", "r">>)
    /\ kwargs.amount = PyInt(100)
    /\ exec_result.ok
    /\ exec_result.value.conversion.from = USD
    /\ exec_result.value.conversion.to = EUR
    /\ exec_result.value.conversion.rate = Float4(8423)
    /\ exec_result.value.conversion.result = Float4(842300)

----------------------------------------------------------------------------
(* Properties of the tools' validation and normalization *)

\* What the exchange rate tool's parameters are required to be.
AcceptableExchangeRateInput(kw) ==
    /\ CurrencyCode(kw.base_currency)
    /\ IsNone(kw.target_currency) \/ CurrencyCode(kw.target_currency)
    /\ IsNone(kw.amount) \/ PositiveNumber(kw.amount)

\* C21: ExchangeRateTool.validate_input accepts a parameter set if and only
\* if base_currency is a string of exactly 3 alphabetic characters,
\* target_currency (when present) is one too, and amount (when present) is a
\* number strictly greater than 0; every other parameter set raises
\* ValidationError.
C21_ExchangeRateValidationIsExact ==
    (tool = "exchange_rate" /\ pc # "idle" /\ pc # "validating") =>
        /\ validate_result = ExchangeRateTool_validate_input(kwargs)
        /\ validate_result = NoExc <=> AcceptableExchangeRateInput(kwargs)
        /\ validate_result # NoExc => validate_result.type = "ValidationError"

\* The keyword arguments with surrounding whitespace trimmed from every
\* string, the form in which validate_input examines them.
Trimmed(kw) ==
    [k \in DOMAIN kw |-> IF IsStr(kw[k]) THEN PyStr(strip(kw[k].s)) ELSE kw[k]]

\* C28: for every input that validate_input accepts, the value execute sends
\* upstream is the normalized value that validation checked: the request URL
\* is the one built from the trimmed ip_address, location, word or currency.
C28_RequestUsesValidatedValue ==
    pc \in {"requesting", "fetched", "shaping"} =>
        /\ validate_input(tool, kwargs) = NoExc
        /\ Url(tool, kwargs) = Url(tool, Trimmed(kwargs))

\* the first link of an exception's chain of causes is the error e
ChainedTo(exc, e) ==
    /\ Len(exc.causes) >= 1
    /\ exc.causes[1] = [type |-> e.type, msg |-> e.msg]

\* C27: every failure that arises inside execute after validation (the
\* client's TimeoutError, its APIError, malformed upstream data) reaches the
\* caller of the tool as ToolExecutionError chained to the original error;
\* the caller never observes APIError or the taxonomy's TimeoutError.
C27_ExecuteFailuresAreWrapped ==
    (pc = "done" /\ validate_result = NoExc /\ ~call_result.ok) =>
        /\ call_result.exc.type = "ToolExecutionError"
        /\ ~get_result.ok => ChainedTo(call_result.exc, get_result.exc)
        /\ (get_result.ok /\ get_result.value.t # "dict" /\ tool # "dictionary")
              => ChainedTo(call_result.exc, NoGetAttribute(get_result.value))

C27_Witness ==
    /\ pc = "done"
    /\ get_result.exc.type = "APIError"
    /\ call_result.exc.type = "ToolExecutionError"
    /\ call_result.exc.causes[1].type = "APIError"
    /\ call_result.exc.causes[2].type = "httpx.HTTPStatusError"

\* the two texts with which IPInfoTool reports rate limiting
RateLimitMessages == {RateLimitMessage, RateLimitMessage429}

\* the upstream response carries the error flag or, with a truthy "error", a
\* reason that contains "rate limit" in any case
SaysRateLimited(data) ==
    /\ data.t = "dict"
    /\ Truthy(data.error)
    /\ \/ data.error = PyTrue
       \/ /\ IsStr(data.reason)
          /\ Contains(lower(data.reason.s),
                      <<"r","a","t","e"," ","l","i","m","i","t">>)

\* C24: IPInfoTool.execute raises the distinct rate-limit error whenever the
\* upstream response carries the error flag or a reason containing "rate
\* limit"; an upstream error or a transport failure that is not rate limiting
\* (no such response, no HTTP 429) is reported with its own reason or
\* message and not with the rate-limit message.
C24_RateLimitIsDistinct ==
    (pc = "done" /\ tool = "ip_info" /\ validate_result = NoExc) =>
        /\ (get_result.ok /\ SaysRateLimited(get_result.value)) =>
              /\ ~exec_result.ok
              /\ exec_result.exc.type = "ToolExecutionError"
              /\ exec_result.exc.msg \in RateLimitMessages
        /\ (/\ get_result.ok
            /\ get_result.value.t = "dict"
            /\ Truthy(get_result.value.error)
            /\ ~SaysRateLimited(get_result.value)) =>
              /\ ~exec_result.ok
              /\ exec_result.exc.msg \notin RateLimitMessages
              /\ IsStr(get_result.value.reason) =>
                     Contains(exec_result.exc.msg, get_result.value.reason.s)
        /\ (~get_result.ok /\ get_result.exc.details.status_code # 429) =>
              /\ ~exec_result.ok
              /\ exec_result.exc.msg \notin RateLimitMessages
              /\ Contains(exec_result.exc.msg, get_result.exc.msg)

\* The same with the two cases the code gets wrong left out: a reason that
\* is not a string, and a failure whose message happens to contain "429".
C24_RateLimitIsDistinctOtherwise ==
    (/\ pc = "done" /\ tool = "ip_info" /\ validate_result = NoExc
     /\ get_result.ok => get_result.value # JsonErrorBadReason
     /\ ~get_result.ok => ~Contains(get_result.exc.msg, <<"4", "2", "9">>))
    => C24_RateLimitIsDistinct

\* C23: a weather lookup has no degraded outcome: for an upstream JSON
\* object in which the named sections or fields are missing or empty,
\* WeatherTool.execute still succeeds with every normalized field present
\* and each missing field defaulted to the empty string.
C23_MissingWeatherFieldsDefaultToEmpty ==
    (/\ pc = "done" /\ tool = "weather"
     /\ get_result.ok /\ get_result.value.t = "dict") =>
        /\ exec_result.ok
        /\ exec_result.value.weather.present
        /\ get_result.value.sections # "present" =>
              /\ exec_result.value.weather.name = <<>>
              /\ exec_result.value.weather.condition = <<>>
              /\ exec_result.value.weather.temperature_c = <<>>
              /\ exec_result.value.weather.observation_time = <<>>

\* What the code does instead: missing sections give the empty string for
\* every field but the location's name, which falls back to the location
\* asked for; a section that is an empty list makes the lookup fail.
C23_WeatherDefaults ==
    (/\ pc = "done" /\ tool = "weather"
     /\ get_result.ok /\ get_result.value.t = "dict") =>
        IF get_result.value.sections = "empty"
        THEN /\ ~exec_result.ok
             /\ exec_result.exc.type = "ToolExecutionError"
             /\ exec_result.exc.causes[1].type = "IndexError"
        ELSE /\ exec_result.ok
             /\ exec_result.value.weather.present
             /\ get_result.value.sections = "absent" =>
                   /\ exec_result.value.weather.name = kwargs.location.s
                   /\ exec_result.value.weather.condition = <<>>
                   /\ exec_result.value.weather.temperature_c = <<>>
                   /\ exec_result.value.weather.observation_time = <<>>

----------------------------------------------------------------------------
(* Methods called on their own, as the test-suite calls them (UnitSpec) *)

PyFalse == [t |-> "bool", s |-> <<>>, n |-> 0]
PyBool(b) == IF b THEN PyTrue ELSE PyFalse

\* the strings handed to _is_valid_ip and, as ip_address, to validate_input
IpStrings ==
    {<<"8", ".", "8", ".", "8", ".", "8">>,
     <<"1", "9", "2", ".", "1", "6", "8", ".", "1", ".", "1">>,
     <<"2", "5", "6", ".", "1", ".", "1", ".", "1">>,
     <<"1", ".", "2", ".", "3">>,
     <<"1", ".", "2", ".", "3", ".", "4", ".", "5">>,
     <<"0", "0", "8", ".", "8", ".", "8", ".", "8">>,
     <<"1", "0", "0", "0", ".", "8", ".", "8", ".", "8">>,
     <<"8", ".", "8", ".", "8", ".", "8", "\n">>,
     <<"8", ".", "8", ".", "8", ".", "8", "\n", "\n">>,
     <<" ", "8", ".", "8", ".", "8", ".", "8">>,
     <<"8", ".", "8", ".", " ", "8", ".", "8">>,
     <<"U+0668", ".", "8", ".", "8", ".", "8">>,
     <<"i", "n", "v", "a", "l", "i", "d">>,
     <<"1", ":", "2", ":", "3", ":", "4", ":", "5", ":", "6", ":", "7", ":", "8">>,
     <<"f", "e", "8", "0", ":", ":", ":", ":", ":", ":", ":", "A", "b">>,
     <<":", ":", ":", ":", ":", ":", ":">>,
     <<":", ":", ":", ":", ":", ":", ":", "\n">>,
     <<":", ":", "1">>,
     <<"g", ":", ":", ":", ":", ":", ":", ":">>,
     <<"1", "2", "3", "4", "5", ":", ":", ":", ":", ":", ":", ":">>}

IpArguments == {PyNone, PyStr(<<>>), PyInt(8)} \cup {PyStr(ip) : ip \in IpStrings}

\* ip_info_tool._is_valid_ip(ip)
IsValidIp(ip) ==
    /\ pc = "idle"
    /\ pc' = "unit_done"
    /\ unit' = Unit("_is_valid_ip", ip, NoKwargs, NoResult,
                    Return(PyBool(_is_valid_ip(ip))))
    /\ UNCHANGED <<apiVarsButPc, metadata, enabled, server_result, mockVars>>

\* ip_info_tool.validate_input(ip_address=v)
ValidateIp(v) ==
    /\ pc = "idle"
    /\ pc' = "unit_done"
    /\ LET kw == [NoKwargs EXCEPT !.ip_address = v]
           e == IPInfoTool_validate_input(kw)
       IN  unit' = Unit("validate_input", <<>>, kw, NoResult,
                        IF e = NoExc THEN Return(PyNone) ELSE Raise(e))
    /\ UNCHANGED <<apiVarsButPc, metadata, enabled, server_result, mockVars>>

\* the caller has the outcome of the method and goes on
UnitReturn ==
    /\ pc = "unit_done"
    /\ pc' = "idle"
    /\ unit' = NoUnit
    /\ transport_calls' = 0
    /\ get_result' = NoResult
    /\ post_result' = NoResult
    /\ UNCHANGED <<tool, kwargs, max_retries, retry_delay, client, open_clients,
                   script, attempt_number, slept, validate_result, exec_result,
                   call_result>>
    /\ UNCHANGED <<metadata, enabled, server_result, mockVars>>

\* most phonetics and most meanings of a dictionary entry
MaxPhonetics == 2
MaxMeanings == 2

Phonetics == {Phonetic(<<"/h", "e", "l", "o", "/">>, <<>>),
              Phonetic(<<>>, <<"hello.mp3">>),
              Phonetic(<<>>, <<>>)}

Meanings == {Meaning(PyStr(<<"interjection">>), 1),
             Meaning(PyStr(<<"noun">>), 2),
             Meaning(PyNone, 0)}

Entries ==
    {Entry(w, ph, ms) :
         w \in {PyNone, PyStr(<<"h", "e", "l", "l", "o">>)},
         ph \in SeqsUpTo(Phonetics, MaxPhonetics),
         ms \in SeqsUpTo(Meanings, MaxMeanings)}

\* an entry that follows the first one in a response
SecondEntry ==
    Entry(PyStr(<<"h", "a", "l", "l", "o">>),
          <<Phonetic(<<"/h", "a", "l", "o", "/">>, <<>>)>>,
          <<Meaning(PyStr(<<"verb">>), 1)>>)

\* what the patched client.get gives DictionaryTool.execute
DictionaryAnswers ==
    {Return(JsonEntries(<<e>>)) : e \in Entries}
    \cup {Return(JsonEntries(<<e, SecondEntry>>)) :
              e \in {x \in Entries : Len(x.meanings) <= 1 /\ Len(x.phonetics) <= 1}}
    \cup {Return(JsonEmptyList), Return(JsonNull), Return(JsonSparseObject),
          Return(JsonObject)}
    \cup {Raise(APIError(<<"HTTP 404 error for ">>, 404, <<"Not Found">>, <<>>))}

DictionaryWords == {PyStr(<<"h", "e", "l", "l", "o">>), PyStr(<<" ", "H", "i", " ">>)}

\* dictionary_tool.execute(word=w) with HTTPClient patched: client.get
\* gives r
DictionaryExecute(w, r) ==
    /\ pc = "idle"
    /\ pc' = "unit_done"
    /\ LET kw == [NoKwargs EXCEPT !.word = w] IN
       unit' = Unit("DictionaryTool.execute", <<>>, kw, r,
                    DictionaryTool_execute(kw, r))
    /\ UNCHANGED <<apiVarsButPc, metadata, enabled, server_result, mockVars>>

\* the answer of a closed httpx.AsyncClient to get and post: it raises
\* RuntimeError before anything is sent
ClosedClientAnswer ==
    Answer("closed", 0, <<>>,
           <<"Cannot send a request, as the client has been closed.">>, JsonNull)

\* what the transport answers to a client in state c
AnswersOf(c) == IF c = "closed" THEN {ClosedClientAnswer} ELSE FinalAnswers

\* `async with client:` is entered on its own
ClientEnter ==
    /\ pc = "idle"
    /\ client # "open"
    /\ client' = HTTPClient_aenter(client)
    /\ open_clients' = open_clients + 1
    /\ UNCHANGED <<pc, tool, kwargs, max_retries, retry_delay, script,
                   attempt_number, transport_calls, slept, validate_result,
                   get_result, exec_result, call_result, post_result>>
    /\ UNCHANGED <<metadata, frontVars, mockVars>>

\* the `async with` block is left
ClientLeave ==
    /\ pc = "idle"
    /\ client = "open"
    /\ client' = HTTPClient_aexit(client)
    /\ open_clients' = open_clients - 1
    /\ UNCHANGED <<pc, tool, kwargs, max_retries, retry_delay, script,
                   attempt_number, transport_calls, slept, validate_result,
                   get_result, exec_result, call_result, post_result>>
    /\ UNCHANGED <<metadata, frontVars, mockVars>>

\* client.get(url) on the client as it is, inside or outside its context;
\* the exception that leaves the body is none that the decorator retries
ClientGet(url, a) ==
    /\ pc = "idle"
    /\ LET r == get_body(client, url, a) IN
       /\ ~(~r.ok /\ retry_if_exception_type(r.exc))
       /\ get_result' = r
       /\ unit' = Unit("HTTPClient.get", url, NoKwargs, NoResult, r)
    /\ transport_calls' = IF InvokesTransport(client) THEN transport_calls + 1
                          ELSE transport_calls
    /\ pc' = "unit_done"
    /\ UNCHANGED <<tool, kwargs, max_retries, retry_delay, client, open_clients,
                   script, attempt_number, slept, validate_result, exec_result,
                   call_result, post_result>>
    /\ UNCHANGED <<metadata, enabled, server_result, mockVars>>

\* client.post(url) on the client as it is
ClientPost(url, a) ==
    /\ pc = "idle"
    /\ LET r == post_body(client, url, a) IN
       /\ post_result' = r
       /\ unit' = Unit("HTTPClient.post", url, NoKwargs, NoResult, r)
    /\ transport_calls' = IF InvokesTransport(client) THEN transport_calls + 1
                          ELSE transport_calls
    /\ pc' = "unit_done"
    /\ UNCHANGED <<tool, kwargs, max_retries, retry_delay, client, open_clients,
                   script, attempt_number, slept, validate_result, exec_result,
                   call_result, get_result>>
    /\ UNCHANGED <<metadata, enabled, server_result, mockVars>>

UnitInit ==
    /\ ApiAbsent
    /\ MonitoringAbsent
    /\ FrontendAbsent

UnitNext ==
    \/ \E ip \in IpStrings : IsValidIp(ip)
    \/ \E v \in IpArguments : ValidateIp(v)
    \/ \E w \in DictionaryWords : \E r \in DictionaryAnswers :
           DictionaryExecute(w, r)
    \/ ClientEnter
    \/ ClientLeave
    \/ \E url \in PostUrls : \E a \in AnswersOf(client) : ClientGet(url, a)
    \/ \E url \in PostUrls : \E a \in AnswersOf(client) : ClientPost(url, a)
    \/ UnitReturn

UnitSpec == UnitInit /\ [][UnitNext]_vars

----------------------------------------------------------------------------
(* Properties of the methods called on their own (UnitSpec) *)

\* an IPv4 dotted quad: four decimal octets, each in 0..255
IsDottedQuad(s) ==
    LET octets == split(s, ".") IN
    /\ Len(octets) = 4
    /\ \A i \in 1..4 :
          /\ Len(octets[i]) \in 1..3
          /\ \A j \in 1..Len(octets[i]) : IsDigitChar(octets[i][j])
          /\ DecimalNumber(octets[i]) <= 255

\* the simplified IPv6 form: eight groups of at most four hex digits,
\* separated by colons
IsColonHex(s) ==
    LET groups == split(s, ":") IN
    /\ Len(groups) = 8
    /\ \A i \in 1..8 :
          /\ Len(groups[i]) <= 4
          /\ \A j \in 1..Len(groups[i]) : IsHexChar(groups[i][j])

\* C22: _is_valid_ip returns true exactly for the strings that are an IPv4
\* dotted quad of four decimal octets in 0..255 or that have the simplified
\* IPv6 colon-hex form, and false for everything else; validate_input
\* accepts an absent or empty ip_address and raises ValidationError for
\* every provided address that (trimmed) is not valid.
C22_ValidIpIsExact ==
    /\ unit.op = "_is_valid_ip" =>
          /\ unit.out \in {Return(PyTrue), Return(PyFalse)}
          /\ unit.out = Return(PyTrue)
                <=> (IsDottedQuad(unit.ip) \/ IsColonHex(unit.ip))
    /\ unit.op = "validate_input" =>
          LET v == unit.kw.ip_address IN
          IF IsNone(v) \/ v = PyStr(<<>>)
          THEN unit.out = Return(PyNone)
          ELSE IF IsStr(v) /\ (IsDottedQuad(strip(v.s)) \/ IsColonHex(strip(v.s)))
          THEN unit.out = Return(PyNone)
          ELSE /\ ~unit.out.ok
               /\ unit.out.exc.type = "ValidationError"

\* The same for the strings without a newline at their end and without
\* decimal digits of other scripts.
C22_ValidIpIsExactForPlainStrings ==
    LET plain(s) == /\ \A i \in 1..Len(s) : ~InSeq(ArabicIndicDigits, s[i])
                    /\ Len(s) > 0 => s[Len(s)] # "\n"
    IN  (/\ plain(unit.ip)
         /\ IsStr(unit.kw.ip_address) => plain(unit.kw.ip_address.s))
        => C22_ValidIpIsExact

\* the examples of the test-suite
C22_Examples ==
    /\ _is_valid_ip(<<"8", ".", "8", ".", "8", ".", "8">>)
    /\ ~_is_valid_ip(<<"2", "5", "6", ".", "1", ".", "1", ".", "1">>)
    /\ ~_is_valid_ip(<<"1", ".", "2", ".", "3">>)

\* execute of the dictionary tool was called and client.get returned
DictionaryExecuted ==
    /\ unit.op = "DictionaryTool.execute"
    /\ unit.got.ok

\* C25: DictionaryTool.execute raises ToolExecutionError "No definition
\* found" when the upstream response is empty or not a list; otherwise it
\* normalizes the first entry only, keeping in `phonetics` exactly the
\* upstream phonetics that have a non-empty text or audio, in their order,
\* and emitting one meaning per upstream meaning with part_of_speech copied
\* from partOfSpeech.
C25_DictionaryNormalization ==
    DictionaryExecuted =>
        LET data == unit.got.value IN
        IF data.t # "list" \/ data.n = 0
        THEN /\ ~unit.out.ok
             /\ unit.out.exc.type = "ToolExecutionError"
             /\ Contains(unit.out.exc.msg, <<"No definition found for '">>)
        ELSE LET entry == data.entries[1]
                 result == unit.out.value.dictionary
             IN
             /\ unit.out.ok
             /\ result.present
             /\ result.phonetics =
                    SelectSeq(entry.phonetics,
                              LAMBDA ph : ph.text # <<>> \/ ph.audio # <<>>)
             /\ Len(result.meanings) = Len(entry.meanings)
             /\ \A i \in 1..Len(entry.meanings) :
                   /\ IsStr(entry.meanings[i].partOfSpeech) =>
                         result.meanings[i].part_of_speech
                             = entry.meanings[i].partOfSpeech.s
                   /\ IsNone(entry.meanings[i].partOfSpeech) =>
                         result.meanings[i].part_of_speech = <<>>

\* a response of two entries whose first one has the part of speech
\* "interjection", one phonetic with a text and no meaning dropped
C25_Witness ==
    /\ DictionaryExecuted
    /\ unit.got.value.n = 2
    /\ unit.got.value.entries[1].phonetics
           = <<Phonetic(<<>>, <<>>)>>
    /\ unit.got.value.entries[1].meanings
           = <<Meaning(PyStr(<<"interjection">>), 1)>>
    /\ unit.out.ok
    /\ unit.out.value.dictionary.phonetics = <<>>
    /\ unit.out.value.dictionary.meanings[1].part_of_speech = <<"interjection">>

\* get or post was called on the client, in whatever state the client is
ClientCalled ==
    /\ pc = "unit_done"
    /\ unit.op \in {"HTTPClient.get", "HTTPClient.post"}

\* C29: get and post reach the transport only while the client's context is
\* open: called before __aenter__ they raise RuntimeError without any
\* transport call, and called after __aexit__ they make no transport call
\* on the closed client either.
C29_TransportOnlyInsideContext ==
    ClientCalled =>
        /\ client = "none" =>
              /\ unit.out = Raise(Exc("RuntimeError",
                     <<"HTTPClient must be used as a context manager">>,
                     <<>>, NoDetails))
              /\ transport_calls = 0
        /\ client = "closed" => transport_calls = 0

\* What holds of the code: before __aenter__ the guard raises RuntimeError
\* and the transport is not called; after __aexit__ the guard lets the call
\* through to the closed httpx client, whose own RuntimeError comes back as
\* APIError.
C29_GuardOnlyBeforeEnter ==
    ClientCalled =>
        /\ client = "none" =>
              /\ ~unit.out.ok
              /\ unit.out.exc.type = "RuntimeError"
              /\ transport_calls = 0
        /\ client = "closed" =>
              /\ transport_calls = 1
              /\ ~unit.out.ok
              /\ unit.out.exc.type = "APIError"
              /\ unit.out.exc.causes[1].type = "RuntimeError"

----------------------------------------------------------------------------
(* The registered functions of the API server (servers/http_server.py) *)

\* the registered function that fronts a tool
FunctionOf(t) ==
    CASE t = "weather" -> "get_weather"
      [] t = "ip_info" -> "get_ip_info"
      [] t = "dictionary" -> "lookup_word"
      [] t = "exchange_rate" -> "get_exchange_rate"

\* the mapping {"error": msg} that a registered function returns
ErrorMapping(msg) == [t |-> "error", error |-> msg]

DisabledMapping(t) ==
    ErrorMapping(CASE t = "weather" -> <<"Weather tool is disabled">>
                   [] t = "ip_info" -> <<"IP info tool is disabled">>
                   [] t = "dictionary" -> <<"Dictionary tool is disabled">>
                   [] t = "exchange_rate" ->
                          <<"Exchange rate tool is disabled">>)

\* a faulty test of the module-level tool object, which never finds it
\* missing
is_disabled_never(en) == FALSE

\* `if not weather_tool:` (and likewise for the other three): the tool
\* object is None when its enable flag was off at import
is_disabled(en) == ~en

\* The keyword arguments with which a registered function calls its tool:
\* get_exchange_rate passes None for an empty target_currency and for the
\* amount 1.0, the other three pass their argument on.
Delegated(t, args) ==
    IF t = "exchange_rate"
    THEN [args EXCEPT
            !.target_currency = IF Truthy(args.target_currency)
                                THEN args.target_currency ELSE PyNone,
            !.amount = IF args.amount # PyInt(1) THEN args.amount ELSE PyNone]
    ELSE args

\* the arguments with which the registered functions are called
FunctionArgs(t) ==
    CASE t = "weather" ->
             {[NoKwargs EXCEPT !.location = v] :
                  v \in {PyStr(<<>>), PyStr(<<"L", "o">>)}}
      [] t = "ip_info" ->
             {[NoKwargs EXCEPT !.ip_address = v] :
                  v \in {PyStr(<<>>),
                         PyStr(<<"8", ".", "8", ".", "8", ".", "8">>),
                         PyStr(<<"1", ".", "2", ".", "3">>)}}
      [] t = "dictionary" ->
             {[NoKwargs EXCEPT !.word = v] :
                  v \in {PyStr(<<"H", "i">>), PyStr(<<"h", "1">>)}}
      [] t = "exchange_rate" ->
             {[NoKwargs EXCEPT !.base_currency = b, !.target_currency = c,
                               !.amount = a] :
                  b \in {PyStr(<<"u", "s", "d">>), PyStr(<<"U", "S">>)},
                  c \in {PyStr(<<>>), PyStr(<<"e", "u", "r">>)},
                  a \in {PyInt(1), PyInt(100), PyInt(0)}}

\* how the upstream answers a delegated call: at once, with any answer
FunctionScripts == {<<a>> : a \in FinalAnswers}

\* the slot of a tool that was not constructed
NoMetadata == ToolMetadata("", "", "", "", FALSE)

\* One of the four registered functions is called with args. With its tool
\* disabled it returns the error mapping; otherwise it logs and awaits
\* tool(**kwargs), which enters __call__.
ServerFunction(t, args) ==
    /\ pc = "idle"
    /\ unit' = Unit(FunctionOf(t), <<>>, args, NoResult, NoResult)
    /\ IF is_disabled(enabled[t])
       THEN /\ pc' = "returned"
            /\ server_result' = Return(DisabledMapping(t))
            /\ UNCHANGED <<apiVarsButPc, metadata>>
       ELSE /\ pc' = "validating"
            /\ tool' = t
            /\ kwargs' = Delegated(t, args)
            /\ metadata' = [metadata EXCEPT ![t] = read_metadata(metadata[t])]
            /\ UNCHANGED <<max_retries, retry_delay, client, open_clients,
                           script, attempt_number, transport_calls, slept,
                           validate_result, get_result, exec_result,
                           call_result, post_result, server_result>>
    /\ UNCHANGED <<enabled, mockVars>>

\* `return await tool(...)`: what __call__ returned or raised is what the
\* registered function returns or raises
ServerReturn ==
    /\ pc = "done"
    /\ pc' = "returned"
    /\ server_result' = call_result
    /\ UNCHANGED <<apiVarsButPc, metadata, enabled, unit, mockVars>>

\* the MCP framework has the outcome; the server is ready for the next call
ServerFinish ==
    /\ pc = "returned"
    /\ pc' = "idle"
    /\ tool' = "weather"
    /\ kwargs' = NoKwargs
    /\ client' = "none"
    /\ script' = <<>>
    /\ attempt_number' = 0
    /\ transport_calls' = 0
    /\ slept' = <<>>
    /\ validate_result' = NoExc
    /\ get_result' = NoResult
    /\ exec_result' = NoResult
    /\ call_result' = NoResult
    /\ server_result' = NoResult
    /\ unit' = NoUnit
    /\ UNCHANGED <<max_retries, retry_delay, open_clients, post_result>>
    /\ UNCHANGED <<metadata, enabled, mockVars>>

\* The module has been imported under some settings: each tool is
\* constructed if and only if its enable flag is on.
FrontendInit ==
    /\ ApiAbsent
    /\ MonitoringAbsent
    /\ enabled \in [Tools -> BOOLEAN]
    /\ metadata = [t \in Tools |-> IF enabled[t] THEN BaseTool_init(t)
                                   ELSE NoMetadata]
    /\ server_result = NoResult
    /\ unit = NoUnit

FrontendNext ==
    \/ \E t \in Tools : \E args \in FunctionArgs(t) : ServerFunction(t, args)
    \/ ValidateInput
    \/ \E sc \in FunctionScripts : ExecuteEnter(sc)
    \/ Attempt
    \/ ClientExit
    \/ ExecuteFinish
    \/ ServerReturn
    \/ ServerFinish

FrontendSpec == FrontendInit /\ [][FrontendNext]_vars

\* a registered function has returned or raised
Returned(t) == pc = "returned" /\ unit.op = FunctionOf(t)

\* C30: when a tool's enable flag is false its registered function returns
\* the mapping {"error": "<tool> is disabled"} as a normal result, whatever
\* the arguments, without running validation, without any network call and
\* without raising; when the flag is true the call is delegated to the
\* tool's invocation entry point, whose outcome is the function's outcome.
C30_DisabledToolReturnsError ==
    /\ \A t \in Tools :
          Returned(t) =>
             IF ~enabled[t]
             THEN /\ server_result = Return(DisabledMapping(t))
                  /\ validate_result = NoExc
                  /\ call_result = NoResult
                  /\ transport_calls = 0
                  /\ open_clients = 0
                  /\ client = "none"
             ELSE /\ tool = t
                  /\ kwargs = Delegated(t, unit.kw)
                  /\ call_result # NoResult
                  /\ server_result = call_result
    /\ pc \in {"validating", "executing", "requesting", "fetched", "shaping",
               "done"} =>
          /\ enabled[tool]
          /\ unit.op = FunctionOf(tool)
          /\ kwargs = Delegated(tool, unit.kw)

\* get_weather(location="") with the weather tool disabled returned the
\* error mapping, although the location is one that validation rejects
C30_Witness ==
    /\ Returned("weather")
    /\ ~enabled["weather"]
    /\ unit.kw.location = PyStr(<<>>)
    /\ WeatherTool_validate_input(unit.kw) # NoExc
    /\ server_result = Return(ErrorMapping(<<"Weather tool is disabled">>))

====
